---- MODULE Spec2Model ----
(***************************************************************************)
(* Query-safety gate and multi-backend execution pipeline of mysqldb-cli.  *)
(*                                                                         *)
(* SQL text is modelled as TLA+ strings; a character is a string of        *)
(* length one.  The validator functions (query-validator.ts) are           *)
(* operators computed the way the code computes them; the two adapters     *)
(* (MySQLUtil, PostgreSQLUtil), the DatabaseFactory and the dispatcher     *)
(* functions are actions over the adapters' connection maps.               *)
(***************************************************************************)
EXTENDS Integers, Sequences, FiniteSets, TLC

VARIABLES
    config,          \* the Config value returned by loadConfig
    dbFactory,       \* dispatcher: TRUE when the module-level factory exists
    utils,           \* DatabaseFactory.utils: family -> adapter instance (0: null)
    connectionPool,  \* per adapter: profile -> connection id (0: no entry)
    nextConn,        \* number of physical connections/pools created so far
    ended,           \* ids of the connections/pools that were ended
    call,            \* the last dispatcher call and what it did
    arg,             \* validator harness: the statement under evaluation
    ret,             \* validator harness: the function applied and its value
    runner,          \* headless run: position of runCommand and the exit code
    inFlight         \* interactive session: the line handlers that have not returned

vars == <<config, dbFactory, utils, connectionPool, nextConn, ended, call,
          arg, ret, runner, inFlight>>

adapterVars == <<config, dbFactory, utils, connectionPool, nextConn, ended,
                 call>>

\* what the dispatcher functions leave alone: the harness and the callers
sessionVars == <<arg, ret, runner, inFlight>>

(***************************************************************************)
(* Text primitives (JavaScript String methods, ASCII)                      *)
(***************************************************************************)

\* String.prototype.toUpperCase on one character
UpperChar(c) ==
    CASE c = "a" -> "A" [] c = "b" -> "B" [] c = "c" -> "C" [] c = "d" -> "D"
      [] c = "e" -> "E" [] c = "f" -> "F" [] c = "g" -> "G" [] c = "h" -> "H"
      [] c = "i" -> "I" [] c = "j" -> "J" [] c = "k" -> "K" [] c = "l" -> "L"
      [] c = "m" -> "M" [] c = "n" -> "N" [] c = "o" -> "O" [] c = "p" -> "P"
      [] c = "q" -> "Q" [] c = "r" -> "R" [] c = "s" -> "S" [] c = "t" -> "T"
      [] c = "u" -> "U" [] c = "v" -> "V" [] c = "w" -> "W" [] c = "x" -> "X"
      [] c = "y" -> "Y" [] c = "z" -> "Z" [] OTHER -> c

CharAt(s, i) == SubSeq(s, i, i)

RECURSIVE ToUpperCase(_)
ToUpperCase(s) ==
    IF Len(s) = 0 THEN ""
    ELSE UpperChar(CharAt(s, 1)) \o ToUpperCase(SubSeq(s, 2, Len(s)))

\* the characters String.prototype.trim and the regular expression \s remove
IsWhitespace(c) == c \in {" ", "\t", "\n", "\r"}

RECURSIVE TrimStart(_)
TrimStart(s) ==
    IF Len(s) > 0 /\ IsWhitespace(CharAt(s, 1))
    THEN TrimStart(SubSeq(s, 2, Len(s)))
    ELSE s

RECURSIVE TrimEnd(_)
TrimEnd(s) ==
    IF Len(s) > 0 /\ IsWhitespace(CharAt(s, Len(s)))
    THEN TrimEnd(SubSeq(s, 1, Len(s) - 1))
    ELSE s

Trim(s) == TrimEnd(TrimStart(s))

\* String.prototype.includes
Includes(s, sub) ==
    \E i \in 1..(Len(s) - Len(sub) + 1) : SubSeq(s, i, i + Len(sub) - 1) = sub

\* String.prototype.startsWith
StartsWith(s, prefix) ==
    Len(prefix) <= Len(s) /\ SubSeq(s, 1, Len(prefix)) = prefix

\* s.split(/\s+/)[0] for a trimmed s: the characters before the first whitespace
RECURSIVE FirstWord(_)
FirstWord(s) ==
    IF Len(s) = 0 \/ IsWhitespace(CharAt(s, 1)) THEN ""
    ELSE CharAt(s, 1) \o FirstWord(SubSeq(s, 2, Len(s)))

Digit(d) ==
    CASE d = 0 -> "0" [] d = 1 -> "1" [] d = 2 -> "2" [] d = 3 -> "3"
      [] d = 4 -> "4" [] d = 5 -> "5" [] d = 6 -> "6" [] d = 7 -> "7"
      [] d = 8 -> "8" [] d = 9 -> "9"

\* template-literal interpolation of a non-negative integer: `${n}`
RECURSIVE NumberToString(_)
NumberToString(n) ==
    IF n < 10 THEN Digit(n) ELSE NumberToString(n \div 10) \o Digit(n % 10)

(***************************************************************************)
(* Optional values: an absent (undefined) value is the empty tuple         *)
(***************************************************************************)

None == <<>>
Some(x) == <<x>>
IsSome(o) == Len(o) = 1
Get(o) == o[1]

Min(S) == CHOOSE x \in S : \A y \in S : x <= y

(***************************************************************************)
(* query-validator.ts                                                      *)
(***************************************************************************)

\* checkBlacklist_CaseSensitive: the comparison without the upper-casing of the query
checkBlacklist_CaseSensitive(query, blacklistedOperations) ==
    LET normalizedQuery == Trim(query)
        hits == {i \in 1..Len(blacklistedOperations) :
                    Includes(normalizedQuery, ToUpperCase(blacklistedOperations[i]))}
    IN  IF hits = {} THEN [allowed |-> TRUE, reason |-> None]
        ELSE [allowed |-> FALSE,
              reason |-> Some("Operation \"" \o blacklistedOperations[Min(hits)]
                              \o "\" is blacklisted and not allowed")]

\* checkBlacklist: the loop returns at the first operation (in list order) that
\* the trimmed, upper-cased query includes
checkBlacklist(query, blacklistedOperations) ==
    LET normalizedQuery == ToUpperCase(Trim(query))
        hits == {i \in 1..Len(blacklistedOperations) :
                    Includes(normalizedQuery, ToUpperCase(blacklistedOperations[i]))}
    IN  IF hits = {} THEN [allowed |-> TRUE, reason |-> None]
        ELSE [allowed |-> FALSE,
              reason |-> Some("Operation \"" \o blacklistedOperations[Min(hits)]
                              \o "\" is blacklisted and not allowed")]

\* requiresConfirmation: first operation that the query starts with, or that
\* the query includes with one space on each side
\* requiresConfirmation_Anywhere: the keyword matched as a plain substring
requiresConfirmation_Anywhere(query, confirmationOperations) ==
    LET normalizedQuery == ToUpperCase(Trim(query))
        hits == {i \in 1..Len(confirmationOperations) :
                    Includes(normalizedQuery, ToUpperCase(confirmationOperations[i]))}
    IN  IF hits = {} THEN [required |-> FALSE, message |-> None]
        ELSE [required |-> TRUE,
              message |-> Some("This query contains a destructive operation: "
                               \o confirmationOperations[Min(hits)])]

requiresConfirmation(query, confirmationOperations) ==
    LET normalizedQuery == ToUpperCase(Trim(query))
        hits == {i \in 1..Len(confirmationOperations) :
                    LET normalizedOp == ToUpperCase(confirmationOperations[i])
                    IN  \/ StartsWith(normalizedQuery, normalizedOp)
                        \/ Includes(normalizedQuery, " " \o normalizedOp \o " ")}
    IN  IF hits = {} THEN [required |-> FALSE, message |-> None]
        ELSE [required |-> TRUE,
              message |-> Some("This query contains a destructive operation: "
                               \o confirmationOperations[Min(hits)])]

knownTypes ==
    {"SELECT", "INSERT", "UPDATE", "DELETE", "DROP", "CREATE", "ALTER",
     "TRUNCATE", "SHOW", "DESCRIBE", "EXPLAIN"}

\* getQueryType_Prefix: the known type the trimmed, uppercased query begins with
getQueryType_Prefix(query) ==
    LET hits == {type \in knownTypes : StartsWith(ToUpperCase(Trim(query)), type)}
    IN  IF hits = {} THEN "UNKNOWN"
        ELSE CHOOSE type \in hits : \A other \in hits : Len(other) <= Len(type)

getQueryType(query) ==
    LET normalizedQuery == ToUpperCase(Trim(query))
        firstWord == FirstWord(normalizedQuery)
    IN  IF firstWord \in knownTypes THEN firstWord ELSE "UNKNOWN"

WhereWarning ==
    [level |-> "warning",
     message |-> "Missing WHERE clause in UPDATE/DELETE query",
     suggestion |-> "This will affect all rows in the table. Add a WHERE clause to limit scope."]

StarWarning ==
    [level |-> "info",
     message |-> "Using SELECT * may impact performance",
     suggestion |-> "Consider selecting only the columns you need."]

LimitWarning ==
    [level |-> "info",
     message |-> "SELECT query without LIMIT",
     suggestion |-> "Consider adding a LIMIT clause to prevent large result sets."]

\* analyzeQuery: the three pushes, in the order of the code
analyzeQuery(query) ==
    LET normalizedQuery == ToUpperCase(Trim(query))
        w1 == IF /\ \/ StartsWith(normalizedQuery, "UPDATE")
                    \/ StartsWith(normalizedQuery, "DELETE")
                 /\ ~Includes(normalizedQuery, "WHERE")
              THEN <<WhereWarning>> ELSE <<>>
        w2 == IF Includes(normalizedQuery, "SELECT *")
              THEN <<StarWarning>> ELSE <<>>
        w3 == IF /\ StartsWith(normalizedQuery, "SELECT")
                 /\ ~Includes(normalizedQuery, "LIMIT")
              THEN <<LimitWarning>> ELSE <<>>
    IN  w1 \o w2 \o w3

\* applyDefaultLimit_Untrimmed: the LIMIT appended to the query as submitted
applyDefaultLimit_Untrimmed(query, defaultLimit) ==
    LET normalizedQuery == ToUpperCase(Trim(query))
    IN  IF StartsWith(normalizedQuery, "SELECT") /\ ~Includes(normalizedQuery, "LIMIT")
        THEN query \o " LIMIT " \o NumberToString(defaultLimit)
        ELSE query

applyDefaultLimit(query, defaultLimit) ==
    LET normalizedQuery == ToUpperCase(Trim(query))
    IN  IF StartsWith(normalizedQuery, "SELECT") /\ ~Includes(normalizedQuery, "LIMIT")
        THEN Trim(query) \o " LIMIT " \o NumberToString(defaultLimit)
        ELSE query

(***************************************************************************)
(* Configuration (config-loader.ts)                                        *)
(***************************************************************************)

MaxConns == 2

Families == {"mysql", "postgresql"}

\* config.profiles: "local" has no type, "prod" is mysql, "pg" is postgresql
Profiles ==
    [local |-> [type |-> None],
     prod  |-> [type |-> Some("mysql")],
     pg    |-> [type |-> Some("postgresql")]]

ProfileNames == DOMAIN Profiles

\* a profile name that config.profiles does not hold
UnknownProfile == "staging"

\* the safety section under the keys of the SafetyConfig interface (the
\* value loadConfig supplies when the file has no safety section)
SafetyCamelCase ==
    [defaultLimit |-> 100,
     requireConfirmationFor |-> <<"DELETE", "UPDATE", "DROP", "TRUNCATE", "ALTER">>,
     blacklistedOperations |-> <<"DROP DATABASE">>]

\* the safety section as README.md documents it; loadConfig returns the
\* parsed YAML object as it is (config.safety || default)
SafetySnakeCase ==
    [default_limit |-> 100,
     require_confirmation_for |-> <<"DELETE", "UPDATE", "DROP", "TRUNCATE", "ALTER">>,
     blacklisted_operations |-> <<"DROP DATABASE">>]

Configs ==
    {[profiles |-> Profiles, safety |-> s, defaultProfile |-> "local",
      defaultFormat |-> "table"] : s \in {SafetyCamelCase, SafetySnakeCase}}

\* a property read: undefined when the object has no such key
ReadKey(object, key) == IF key \in DOMAIN object THEN Some(object[key]) ELSE None

getDatabaseType(cfg, profileName) ==
    LET profile == cfg.profiles[profileName]
    IN  IF IsSome(profile.type) THEN Get(profile.type) ELSE "mysql"

\* the SafetyPolicy of a configuration, under whichever keys it is written
PolicyOf(cfg) ==
    IF "defaultLimit" \in DOMAIN cfg.safety
    THEN [limit |-> cfg.safety.defaultLimit,
          confirm |-> cfg.safety.requireConfirmationFor,
          blacklist |-> cfg.safety.blacklistedOperations]
    ELSE [limit |-> cfg.safety.default_limit,
          confirm |-> cfg.safety.require_confirmation_for,
          blacklist |-> cfg.safety.blacklisted_operations]

\* the statements the dispatcher is called with
Queries ==
    {"DROP DATABASE prod",
     "DELETE FROM users",
     "SELECT * FROM users",
     "  select id from t limit 5 ",
     "SHOW TABLES",
     "INSERT INTO t VALUES (1)",
     "USE prod;DROP\tDATABASE prod"}

(***************************************************************************)
(* Results and texts shared by the two adapters                            *)
(***************************************************************************)

\* QueryResult (database.ts): absent properties are None
Result(success, result, error, confirmation, message) ==
    [success |-> success, result |-> result, error |-> error,
     requiresConfirmation |-> confirmation, message |-> message]

\* the value of a call that did not return (the promise rejected)
NoResult == Result(FALSE, None, None, None, None)

BlockedError(reason) ==
    "ERROR: " \o reason
    \o "\n\nThis operation is blocked by safety rules and cannot be executed."

ConfirmationMessage(message, query) ==
    "WARNING: " \o message \o "\n\nQuery: " \o query
    \o "\n\nThis is a destructive operation. Please confirm you want to proceed."

RECURSIVE JoinLines(_)
JoinLines(lines) ==
    IF Len(lines) = 0 THEN ""
    ELSE IF Len(lines) = 1 THEN lines[1]
    ELSE lines[1] \o "\n" \o JoinLines(Tail(lines))

\* the warning block of executeQuery; the two pictographs of the source
\* text are written "(!)" and "(i)", the arrow "->"
WarningText(warnings) ==
    IF Len(warnings) > 0
    THEN "(!)  Query Analysis:\n"
         \o JoinLines([i \in 1..Len(warnings) |->
                "  [" \o ToUpperCase(warnings[i].level) \o "] " \o warnings[i].message
                \o "\n  -> " \o warnings[i].suggestion])
         \o "\n\n"
    ELSE ""

LimitNotice(defaultLimit) ==
    "(i)  Applied default LIMIT " \o NumberToString(defaultLimit) \o "\n\n"

ResultBearing == {"SELECT", "SHOW", "DESCRIBE", "EXPLAIN"}

OutputFormats == {"table", "json", "csv", "toon"}

\* the four formatters on an empty row set (the driver of this model answers
\* a successful query with no rows)
RenderEmpty(format) ==
    CASE format = "json" -> "[]"
      [] format = "csv"  -> ""
      [] format = "toon" -> ""
      [] OTHER           -> "No results"

\* what the driver does with the next request
DriverBehaviours == {"ok", "connectError", "queryError"}

DriverMessage(driver) ==
    IF driver = "connectError" THEN "connect ECONNREFUSED"
    ELSE "You have an error in your SQL syntax"

\* what an adapter method did: threw or returned `result`, the failure the
\* driver raised during the call (None: none), the statements it sent to the
\* driver, whether it asked for a connection/pool, the adapter's map
\* afterwards and the id of the connection/pool it created (0: none)
Effect(threw, result, failure, sent, acquired, pool, made) ==
    [threw |-> threw, result |-> result, failure |-> failure, sent |-> sent,
     acquired |-> acquired, pool |-> pool, made |-> made,
     clients |-> 0, released |-> 0]

Thrown(pool) == Effect(TRUE, NoResult, None, <<>>, FALSE, pool, 0)
Returned(result, pool) == Effect(FALSE, result, None, <<>>, FALSE, pool, 0)

\* Failure_Generic: the catch block with a fixed text in place of the message
Failure_Generic(message) ==
    Result(FALSE, None, Some("ERROR: query failed"), None, None)

\* the catch block of every adapter method: error.message behind "ERROR: "
Failure(message) == Result(FALSE, None, Some("ERROR: " \o message), None, None)

\* the return of a try block that ran to its end
Success(text) == Result(TRUE, Some(text), None, None, None)

\* what a method computes from the rows once the query has answered: its
\* result text, or the message of the TypeError its own code raises
Answer(text) == [ok |-> TRUE, text |-> text]
Raises(message) == [ok |-> FALSE, text |-> message]

\* the formatters of describeTable, showIndexes and explainQuery on an empty
\* row set: json, toon, and the table for every other format
RenderEmptyStructure(format) ==
    CASE format = "json" -> "[]"
      [] format = "toon" -> ""
      [] OTHER           -> "No results"

\* the table name describeTable and showIndexes are called with
Tables == {"users"}

\* what the server of the model answers to SELECT VERSION(), DATABASE()
ServerVersion == "8.0.36"
ServerDatabase == "app"

(***************************************************************************)
(* MySQLUtil (mysql-utils.ts)                                              *)
(***************************************************************************)

Sent(connection, text) == [connection |-> connection, text |-> text]

Verdict(outcome, result) == [outcome |-> outcome, result |-> result]

\* the two checks at the head of executeQuery, on the lists an adapter read:
\* checkBlacklist and requiresConfirmation iterate their list, which throws a
\* TypeError when the key is absent (for...of over undefined); this is
\* outside the try block of executeQuery
Validate(query, blacklist, confirmOps) ==
    IF ~IsSome(blacklist) THEN Verdict("throws", NoResult)
    ELSE
    LET blacklistCheck == checkBlacklist(query, Get(blacklist)) IN
    IF ~blacklistCheck.allowed
    THEN Verdict("blocked",
                 Result(FALSE, None, Some(BlockedError(Get(blacklistCheck.reason))),
                        None, None))
    ELSE IF ~IsSome(confirmOps) THEN Verdict("throws", NoResult)
    ELSE
    LET confirmationCheck == requiresConfirmation(query, Get(confirmOps)) IN
    IF confirmationCheck.required
    THEN Verdict("confirmation",
                 Result(FALSE, None, None, Some(TRUE),
                        Some(ConfirmationMessage(Get(confirmationCheck.message), query))))
    ELSE Verdict("proceed", NoResult)

\* FinalQuery_Submitted: the submitted text, without the default limit
FinalQuery_Submitted(query, defaultLimit) == query

\* the statement executeQuery sends: the default limit applied to a SELECT
FinalQuery(query, defaultLimit) ==
    IF getQueryType(query) = "SELECT"
    THEN applyDefaultLimit(query, defaultLimit)
    ELSE query

\* the text in front of the output: the analysis block, then the notice when
\* the default limit changed a SELECT
ExecuteWarningText(query, finalQuery, defaultLimit) ==
    WarningText(analyzeQuery(query))
    \o (IF getQueryType(query) = "SELECT" /\ finalQuery # query
        THEN LimitNotice(defaultLimit) ELSE "")

\* executeQuery, the validation: the lists are read under the camelCase keys
MySQLUtil_validate(cfg, query) ==
    Validate(query,
             ReadKey(cfg.safety, "blacklistedOperations"),
             ReadKey(cfg.safety, "requireConfirmationFor"))

\* executeQuery up to the try block, which depends on the configuration and
\* the query only: the verdict of the validation and, for a query that
\* passes, its type, the statement to send and the warning text
Plan(verdict, query, defaultLimit) ==
    IF verdict.outcome # "proceed"
    THEN [verdict |-> verdict, queryType |-> "", finalQuery |-> "", warningText |-> ""]
    ELSE LET finalQuery == FinalQuery(query, Get(defaultLimit))
         IN  [verdict |-> verdict,
              queryType |-> getQueryType(query),
              finalQuery |-> finalQuery,
              warningText |-> ExecuteWarningText(query, finalQuery, Get(defaultLimit))]

MySQLUtil_plan(cfg, query) ==
    Plan(MySQLUtil_validate(cfg, query), query, ReadKey(cfg.safety, "defaultLimit"))

\* MySQLUtil_plan for every configuration and statement of the model,
\* computed once
MySQLUtil_plans == [cfg \in Configs |-> [q \in Queries |-> MySQLUtil_plan(cfg, q)]]

\* MySQLUtil_getConnection_Fresh: a new connection on every call
MySQLUtil_getConnection_Fresh(pool, profileName, driver, id) ==
    IF driver = "connectError"
    THEN [ok |-> FALSE, connection |-> 0, pool |-> pool, made |-> 0]
    ELSE [ok |-> TRUE, connection |-> id,
          pool |-> [pool EXCEPT ![profileName] = id], made |-> id]

\* getConnection: the cached connection, or a new one (id) put in the map;
\* mysql.createConnection rejects when the driver cannot connect
MySQLUtil_getConnection(pool, profileName, driver, id) ==
    IF pool[profileName] # 0
    THEN [ok |-> TRUE, connection |-> pool[profileName], pool |-> pool, made |-> 0]
    ELSE IF driver = "connectError"
    THEN [ok |-> FALSE, connection |-> 0, pool |-> pool, made |-> 0]
    ELSE [ok |-> TRUE, connection |-> id,
          pool |-> [pool EXCEPT ![profileName] = id], made |-> id]

MySQLUtil_output(queryType, format) ==
    IF queryType \in ResultBearing
    THEN "Query executed successfully. Rows returned: " \o NumberToString(0)
         \o "\n\n" \o RenderEmpty(format)
    ELSE "Query executed successfully.\n"
         \o "Affected rows: " \o NumberToString(0) \o "\n"

\* MySQLUtil_try_Forget: the profile's connection dropped from the map when
\* the query fails
MySQLUtil_try_Forget(pool, profileName, text, answer, driver, id) ==
    LET c == MySQLUtil_getConnection(pool, profileName, driver, id)
        sent == <<Sent(c.connection, text)>>
    IN
    IF ~c.ok
    THEN Effect(FALSE, Failure(DriverMessage(driver)), Some(DriverMessage(driver)),
                <<>>, TRUE, c.pool, c.made)
    ELSE IF driver = "queryError"
    THEN Effect(FALSE, Failure(DriverMessage(driver)), Some(DriverMessage(driver)),
                sent, TRUE, [c.pool EXCEPT ![profileName] = 0], c.made)
    ELSE IF ~answer.ok
    THEN Effect(FALSE, Failure(answer.text), None, sent, TRUE, c.pool, c.made)
    ELSE Effect(FALSE, Success(answer.text), None, sent, TRUE, c.pool, c.made)

\* the body shared by the adapter methods: try { getConnection;
\* connection.query(text); build the result } catch { ERROR: message }
MySQLUtil_try(pool, profileName, text, answer, driver, id) ==
    LET c == MySQLUtil_getConnection(pool, profileName, driver, id)
        sent == <<Sent(c.connection, text)>>
    IN
    IF ~c.ok
    THEN Effect(FALSE, Failure(DriverMessage(driver)), Some(DriverMessage(driver)),
                <<>>, TRUE, c.pool, c.made)
    ELSE IF driver = "queryError"
    THEN Effect(FALSE, Failure(DriverMessage(driver)), Some(DriverMessage(driver)),
                sent, TRUE, c.pool, c.made)
    ELSE IF ~answer.ok
    THEN Effect(FALSE, Failure(answer.text), None, sent, TRUE, c.pool, c.made)
    ELSE Effect(FALSE, Success(answer.text), None, sent, TRUE, c.pool, c.made)

\* the try block of executeQuery (getConnection, connection.query) and its catch
MySQLUtil_execute(plan, pool, profileName, format, driver, id) ==
    MySQLUtil_try(pool, profileName, plan.finalQuery,
                  Answer(plan.warningText \o MySQLUtil_output(plan.queryType, format)),
                  driver, id)

\* executeQuery(profileName, query, format) on the adapter whose map is pool
MySQLUtil_executeQuery(pool, profileName, query, format, driver, id) ==
    LET plan == MySQLUtil_plans[config][query]
        v == plan.verdict
    IN  CASE v.outcome = "throws"  -> Thrown(pool)
          [] v.outcome = "proceed" ->
                MySQLUtil_execute(plan, pool, profileName, format, driver, id)
          [] OTHER                 -> Returned(v.result, pool)

\* explainQuery: no validation; EXPLAIN is put in front of the query
MySQLUtil_explainQuery(pool, profileName, query, format, driver, id) ==
    MySQLUtil_try(pool, profileName, "EXPLAIN " \o query,
                  Answer(RenderEmptyStructure(format)), driver, id)

\* listDatabases: the list of no databases joins to the empty text
MySQLUtil_listDatabases(pool, profileName, driver, id) ==
    MySQLUtil_try(pool, profileName, "SHOW DATABASES", Answer("Databases:\n"),
                  driver, id)

\* the tables the server lists for a profile: the database of "local" is
\* empty, the others hold one table
TablesListed(profileName) == IF profileName = "local" THEN <<>> ELSE <<"users">>

\* tables.map(table => '  (bullet) ' + table).join('\n'); the bullet of the
\* source text is written "*"
RECURSIVE TableList(_)
TableList(tables) ==
    IF tables = <<>> THEN ""
    ELSE "  * " \o Head(tables)
         \o (IF Len(tables) > 1 THEN "\n" ELSE "") \o TableList(Tail(tables))

\* listTables: Object.keys(rowsArray[0]) raises a TypeError inside the try
\* block when the database has no table
MySQLUtil_listTables(pool, profileName, driver, id) ==
    MySQLUtil_try(pool, profileName, "SHOW TABLES",
                  IF TablesListed(profileName) = <<>>
                  THEN Raises("Cannot convert undefined or null to object")
                  ELSE Answer("Tables in database:\n"
                              \o TableList(TablesListed(profileName))),
                  driver, id)

MySQLUtil_describeTable(pool, profileName, table, format, driver, id) ==
    MySQLUtil_try(pool, profileName, "DESCRIBE " \o table,
                  Answer(RenderEmptyStructure(format)), driver, id)

MySQLUtil_showIndexes(pool, profileName, table, format, driver, id) ==
    MySQLUtil_try(pool, profileName, "SHOW INDEXES FROM " \o table,
                  Answer(RenderEmptyStructure(format)), driver, id)

\* testConnection; the check mark of the source text is written "(ok)"
MySQLUtil_testConnection(pool, profileName, driver, id) ==
    MySQLUtil_try(pool, profileName,
                  "SELECT VERSION() as version, DATABASE() as current_database",
                  Answer("(ok) Connection successful!\n\nProfile: " \o profileName
                         \o "\nMySQL Version: " \o ServerVersion
                         \o "\nCurrent Database: " \o ServerDatabase),
                  driver, id)

\* closeAll: end() on every connection of the map, then the map cleared;
\* a connection's end() resolves
MySQLUtil_closeAll_Keep(pool) ==
    [pool |-> pool, closed |-> {pool[p] : p \in DOMAIN pool} \ {0}]

MySQLUtil_closeAll(pool) ==
    [pool |-> [p \in DOMAIN pool |-> 0],
     closed |-> {pool[p] : p \in DOMAIN pool} \ {0}]

(***************************************************************************)
(* PostgreSQLUtil (postgresql-utils.ts)                                    *)
(***************************************************************************)

\* executeQuery, the validation: the lists are read under the snake_case keys
PostgreSQLUtil_validate(cfg, query) ==
    Validate(query,
             ReadKey(cfg.safety, "blacklisted_operations"),
             ReadKey(cfg.safety, "require_confirmation_for"))

PostgreSQLUtil_plan(cfg, query) ==
    Plan(PostgreSQLUtil_validate(cfg, query), query, ReadKey(cfg.safety, "default_limit"))

\* PostgreSQLUtil_plan for every configuration and statement of the model,
\* computed once
PostgreSQLUtil_plans ==
    [cfg \in Configs |-> [q \in Queries |-> PostgreSQLUtil_plan(cfg, q)]]

\* getPool: the cached pool, or a new Pool (id) put in the map; new Pool()
\* does not connect and does not fail
PostgreSQLUtil_getPool(pool, profileName, id) ==
    IF pool[profileName] # 0
    THEN [connection |-> pool[profileName], pool |-> pool, made |-> 0]
    ELSE [connection |-> id, pool |-> [pool EXCEPT ![profileName] = id], made |-> id]

PostgreSQLUtil_output(queryType, format) ==
    IF queryType \in ResultBearing
    THEN "Query executed successfully. Rows returned: " \o NumberToString(0)
         \o "\n\n" \o RenderEmpty(format)
    ELSE "Query executed successfully.\n"
         \o "Affected rows: " \o NumberToString(0) \o "\n"

\* what the try and catch blocks of a PostgreSQLUtil method do: getPool,
\* pool.connect(), client.query(text), the result or ERROR: message
PostgreSQLUtil_tryCatch(pool, profileName, text, answer, driver, id) ==
    LET p == PostgreSQLUtil_getPool(pool, profileName, id)
        sent == <<Sent(p.connection, text)>>
    IN
    IF driver = "connectError"
    THEN Effect(FALSE, Failure(DriverMessage(driver)), Some(DriverMessage(driver)),
                <<>>, TRUE, p.pool, p.made)
    ELSE IF driver = "queryError"
    THEN Effect(FALSE, Failure(DriverMessage(driver)), Some(DriverMessage(driver)),
                sent, TRUE, p.pool, p.made)
    ELSE IF ~answer.ok
    THEN Effect(FALSE, Failure(answer.text), None, sent, TRUE, p.pool, p.made)
    ELSE Effect(FALSE, Success(answer.text), None, sent, TRUE, p.pool, p.made)

\* PostgreSQLUtil_try_ReleaseOnSuccess: the client released at the end of
\* the try block only
PostgreSQLUtil_try_ReleaseOnSuccess(pool, profileName, text, answer, driver, id) ==
    [PostgreSQLUtil_tryCatch(pool, profileName, text, answer, driver, id)
        EXCEPT !.clients = IF driver = "connectError" THEN 0 ELSE 1,
               !.released = IF driver = "ok" /\ answer.ok THEN 1 ELSE 0]

\* the body shared by the adapter methods: let client = null; try { getPool;
\* client = pool.connect(); client.query(text); build the result } catch
\* { ERROR: message } finally { if (client) client.release() }
PostgreSQLUtil_try(pool, profileName, text, answer, driver, id) ==
    LET client == IF driver = "connectError" THEN 0 ELSE 1
    IN  [PostgreSQLUtil_tryCatch(pool, profileName, text, answer, driver, id)
            EXCEPT !.clients = client,
                   !.released = IF client # 0 THEN 1 ELSE 0]

\* the try block of executeQuery (getPool, pool.connect(), client.query) and
\* its catch; the client, when there is one, is released in finally
PostgreSQLUtil_execute(plan, pool, profileName, format, driver, id) ==
    PostgreSQLUtil_try(pool, profileName, plan.finalQuery,
                       Answer(plan.warningText
                              \o PostgreSQLUtil_output(plan.queryType, format)),
                       driver, id)

\* executeQuery(profileName, query, format) on the adapter whose map is pool
PostgreSQLUtil_executeQuery(pool, profileName, query, format, driver, id) ==
    LET plan == PostgreSQLUtil_plans[config][query]
        v == plan.verdict
    IN  CASE v.outcome = "throws"  -> Thrown(pool)
          [] v.outcome = "proceed" ->
                PostgreSQLUtil_execute(plan, pool, profileName, format, driver, id)
          [] OTHER                 -> Returned(v.result, pool)

\* explainQuery: no validation; EXPLAIN is put in front of the query
PostgreSQLUtil_explainQuery(pool, profileName, query, format, driver, id) ==
    PostgreSQLUtil_try(pool, profileName, "EXPLAIN " \o query,
                       Answer(RenderEmptyStructure(format)), driver, id)

\* getPostgreSQLSchema: no profile of the model names a schema
Schema == "public"

PostgreSQLUtil_listDatabases(pool, profileName, driver, id) ==
    PostgreSQLUtil_try(pool, profileName,
        "SELECT datname as \"Database\" FROM pg_database WHERE datistemplate = false ORDER BY datname",
        Answer("Databases:\n"), driver, id)

PostgreSQLUtil_listTables(pool, profileName, driver, id) ==
    PostgreSQLUtil_try(pool, profileName,
        "SELECT tablename as \"Tables\" FROM pg_tables WHERE schemaname = $1 ORDER BY tablename",
        Answer("Tables in schema '" \o Schema \o "':\n"
               \o TableList(TablesListed(profileName))), driver, id)

\* describeTable and showIndexes: the statement text is written by its
\* source and its parameters
PostgreSQLUtil_describeTable(pool, profileName, table, format, driver, id) ==
    PostgreSQLUtil_try(pool, profileName,
        "SELECT ... FROM information_schema.columns c ... [" \o table \o ", "
            \o Schema \o "]",
        Answer(RenderEmptyStructure(format)), driver, id)

PostgreSQLUtil_showIndexes(pool, profileName, table, format, driver, id) ==
    PostgreSQLUtil_try(pool, profileName,
        "SELECT ... FROM pg_indexes WHERE tablename = $1 AND schemaname = $2 ["
            \o table \o ", " \o Schema \o "]",
        Answer(RenderEmptyStructure(format)), driver, id)

PostgreSQLUtil_testConnection(pool, profileName, driver, id) ==
    PostgreSQLUtil_try(pool, profileName,
        "SELECT version() as version, current_database() as current_database",
        Answer("(ok) Connection successful!\n\nProfile: " \o profileName
               \o "\nPostgreSQL Version: " \o ServerVersion
               \o "\nCurrent Database: " \o ServerDatabase),
        driver, id)

\* closeAll: end() on every pool of the map, then the map cleared
PostgreSQLUtil_closeAll(pool) ==
    [pool |-> [p \in DOMAIN pool |-> 0],
     closed |-> {pool[p] : p \in DOMAIN pool} \ {0}]

(***************************************************************************)
(* DatabaseFactory (database-factory.ts) and the dispatcher functions      *)
(* (mysql-database.ts)                                                     *)
(***************************************************************************)

EmptyPool == [p \in ProfileNames |-> 0]

\* one dispatcher call: what was asked, the adapter instance that served it
\* (0: none), what the adapter method did, and for a close the
\* connections/pools it ended
Call(op, profile, query, table, family, util, eff) ==
    [op |-> op, profile |-> profile, query |-> query, table |-> table,
     family |-> family, util |-> util,
     threw |-> eff.threw, result |-> eff.result, failure |-> eff.failure,
     sent |-> eff.sent, acquired |-> eff.acquired, made |-> eff.made,
     clients |-> eff.clients, released |-> eff.released,
     closed |-> {}, rejected |-> {}]

NoCall == Call("none", "", "", "", "none", 0, Thrown(EmptyPool))

\* a close that returned, having ended the connections/pools `closed`
CloseCall(op, family, closed) ==
    [Call(op, "", "", "", family, 0, Returned(NoResult, EmptyPool))
        EXCEPT !.closed = closed]

\* the id of a new adapter of a family: an id the instance the factory holds
\* for the family, if any, does not have (instances of the two classes are
\* never the same object, so ids are told apart within a family)
FreshUtil(utilsMap, family) == IF utilsMap[family] = 1 THEN 2 ELSE 1

\* getUtilForType_New: a new adapter on every request
getUtilForType_New(utilsMap, dbType) ==
    LET family == IF dbType = "postgresql" THEN "postgresql" ELSE "mysql"
        util == FreshUtil(utilsMap, family)
    IN  [utils |-> [utilsMap EXCEPT ![family] = util], family |-> family,
         util |-> util, created |-> TRUE]

\* getUtilForType: the adapter of the family, created on first use; every
\* type other than postgresql gets the MySQL adapter
getUtilForType(utilsMap, dbType) ==
    LET family == IF dbType = "postgresql" THEN "postgresql" ELSE "mysql"
    IN  IF utilsMap[family] = 0
        THEN LET util == FreshUtil(utilsMap, family)
             IN  [utils |-> [utilsMap EXCEPT ![family] = util], family |-> family,
                  util |-> util, created |-> TRUE]
        ELSE [utils |-> utilsMap, family |-> family, util |-> utilsMap[family],
              created |-> FALSE]

\* getUtilForProfile, for a profile the configuration holds
getUtilForProfile(utilsMap, cfg, profileName) ==
    getUtilForType(utilsMap, getDatabaseType(cfg, profileName))

Operations ==
    {"executeQuery", "listDatabases", "listTables", "describeTable",
     "showIndexes", "explainQuery", "testConnection"}

\* the adapter method of `op` on the MySQL adapter whose map is pool
MySQLUtil_method(op, pool, profile, query, table, format, driver, id) ==
    CASE op = "executeQuery" ->
            MySQLUtil_executeQuery(pool, profile, query, format, driver, id)
      [] op = "listDatabases" -> MySQLUtil_listDatabases(pool, profile, driver, id)
      [] op = "listTables" -> MySQLUtil_listTables(pool, profile, driver, id)
      [] op = "describeTable" ->
            MySQLUtil_describeTable(pool, profile, table, format, driver, id)
      [] op = "showIndexes" ->
            MySQLUtil_showIndexes(pool, profile, table, format, driver, id)
      [] op = "explainQuery" ->
            MySQLUtil_explainQuery(pool, profile, query, format, driver, id)
      [] op = "testConnection" -> MySQLUtil_testConnection(pool, profile, driver, id)

\* the adapter method of `op` on the PostgreSQL adapter whose map is pool
PostgreSQLUtil_method(op, pool, profile, query, table, format, driver, id) ==
    CASE op = "executeQuery" ->
            PostgreSQLUtil_executeQuery(pool, profile, query, format, driver, id)
      [] op = "listDatabases" -> PostgreSQLUtil_listDatabases(pool, profile, driver, id)
      [] op = "listTables" -> PostgreSQLUtil_listTables(pool, profile, driver, id)
      [] op = "describeTable" ->
            PostgreSQLUtil_describeTable(pool, profile, table, format, driver, id)
      [] op = "showIndexes" ->
            PostgreSQLUtil_showIndexes(pool, profile, table, format, driver, id)
      [] op = "explainQuery" ->
            PostgreSQLUtil_explainQuery(pool, profile, query, format, driver, id)
      [] op = "testConnection" ->
            PostgreSQLUtil_testConnection(pool, profile, driver, id)

\* initDB, then factory.getUtilForProfile(profile), then the adapter method.
\* getDatabaseType throws for a profile the configuration does not hold;
\* getUtilForType creates the adapter of the family on first use, with an
\* empty map.
Dispatch(op, profile, query, table, driver) ==
    /\ dbFactory' = TRUE
    /\ IF profile \notin DOMAIN config.profiles
       THEN /\ call' = Call(op, profile, query, table, "none", 0, Thrown(EmptyPool))
            /\ UNCHANGED <<utils, connectionPool, nextConn>>
       ELSE \E got \in {getUtilForProfile(utils, config, profile)} :
            \E pool \in {IF got.created THEN EmptyPool
                          ELSE connectionPool[got.family]} :
            \E eff \in {IF got.family = "mysql"
                         THEN MySQLUtil_method(op, pool, profile, query, table,
                                               config.defaultFormat, driver,
                                               nextConn + 1)
                         ELSE PostgreSQLUtil_method(op, pool, profile, query, table,
                                                    config.defaultFormat, driver,
                                                    nextConn + 1)} :
                /\ eff.made # 0 => nextConn < MaxConns
                /\ utils' = got.utils
                /\ connectionPool' = [connectionPool EXCEPT ![got.family] = eff.pool]
                /\ nextConn' = IF eff.made # 0 THEN nextConn + 1 ELSE nextConn
                /\ call' = Call(op, profile, query, table, got.family, got.util, eff)
    /\ UNCHANGED <<config, ended>>

AnyProfile == ProfileNames \cup {UnknownProfile}

\* executeQuery(query, profile, format) of the dispatcher
ExecuteQuery ==
    /\ \E query \in Queries, profile \in AnyProfile, driver \in DriverBehaviours :
          Dispatch("executeQuery", profile, query, "", driver)
    /\ UNCHANGED sessionVars

\* listDatabases(profile) of the dispatcher
ListDatabases ==
    /\ \E profile \in AnyProfile, driver \in DriverBehaviours :
          Dispatch("listDatabases", profile, "", "", driver)
    /\ UNCHANGED sessionVars

\* listTables(profile) of the dispatcher
ListTables ==
    /\ \E profile \in AnyProfile, driver \in DriverBehaviours :
          Dispatch("listTables", profile, "", "", driver)
    /\ UNCHANGED sessionVars

\* describeTable(profile, table, format) of the dispatcher
DescribeTable ==
    /\ \E table \in Tables, profile \in AnyProfile, driver \in DriverBehaviours :
          Dispatch("describeTable", profile, "", table, driver)
    /\ UNCHANGED sessionVars

\* showIndexes(profile, table, format) of the dispatcher
ShowIndexes ==
    /\ \E table \in Tables, profile \in AnyProfile, driver \in DriverBehaviours :
          Dispatch("showIndexes", profile, "", table, driver)
    /\ UNCHANGED sessionVars

\* the statements explainQuery is called with
ExplainQueries == {"DROP DATABASE prod", "DELETE FROM users", "SELECT * FROM users"}

\* explainQuery(profile, query, format) of the dispatcher
ExplainQuery ==
    /\ \E query \in ExplainQueries, profile \in AnyProfile,
          driver \in DriverBehaviours :
          Dispatch("explainQuery", profile, query, "", driver)
    /\ UNCHANGED sessionVars

\* testConnection(profile) of the dispatcher
TestConnection ==
    /\ \E profile \in AnyProfile, driver \in DriverBehaviours :
          Dispatch("testConnection", profile, "", "", driver)
    /\ UNCHANGED sessionVars

\* the connections/pools in an adapter's map
Connections(pool) == {pool[p] : p \in ProfileNames} \ {0}

\* closeAll of the adapter of a family
Util_closeAll(family, pool) ==
    IF family = "mysql" THEN MySQLUtil_closeAll(pool) ELSE PostgreSQLUtil_closeAll(pool)

\* DatabaseFactory.closeAll: closeAll on each adapter the factory holds, which
\* is then dropped
DatabaseFactory_closeAll(utilsMap, pools) ==
    LET done == [f \in Families |-> Util_closeAll(f, pools[f])]
        held == {f \in Families : utilsMap[f] # 0}
    IN  [utils |-> [f \in Families |-> 0],
         pools |-> [f \in Families |-> IF f \in held THEN done[f].pool ELSE pools[f]],
         closed |-> UNION {done[f].closed : f \in held}]

\* closeConnections of the dispatcher: factory.closeAll(), then the factory
\* is dropped; nothing when there is no factory
closeConnections ==
    /\ IF dbFactory
       THEN LET done == DatabaseFactory_closeAll(utils, connectionPool)
            IN  /\ ended' = ended \cup done.closed
                /\ connectionPool' = done.pools
                /\ utils' = done.utils
                /\ dbFactory' = FALSE
                /\ call' = CloseCall("closeConnections", "none", done.closed)
       ELSE /\ UNCHANGED <<ended, connectionPool, utils, dbFactory>>
            /\ call' = CloseCall("closeConnections", "none", {})
    /\ UNCHANGED <<config, nextConn>>

CloseConnections ==
    /\ closeConnections
    /\ UNCHANGED sessionVars

\* closeAll called on the factory itself: the factory stays
FactoryCloseAll ==
    /\ dbFactory
    /\ LET done == DatabaseFactory_closeAll(utils, connectionPool)
       IN  /\ ended' = ended \cup done.closed
           /\ connectionPool' = done.pools
           /\ utils' = done.utils
           /\ call' = CloseCall("factory.closeAll", "none", done.closed)
    /\ UNCHANGED <<config, dbFactory, nextConn>>
    /\ UNCHANGED sessionVars

\* closeAll called on an adapter itself: the factory keeps the adapter
AdapterCloseAll ==
    /\ \E f \in Families :
          /\ utils[f] # 0
          /\ LET done == Util_closeAll(f, connectionPool[f])
             IN  /\ ended' = ended \cup done.closed
                 /\ connectionPool' = [connectionPool EXCEPT ![f] = done.pool]
                 /\ call' = CloseCall("util.closeAll", f, done.closed)
    /\ UNCHANGED <<config, dbFactory, utils, nextConn>>
    /\ UNCHANGED sessionVars

\* the validator harness at rest: no function applied yet
NoReturn == [fn |-> "none", input |-> <<>>, value |-> <<>>]

\* no headless run and no interactive session in progress
NoRunner == [pc |-> "none", exitCode |-> -1]
NoLines == <<>>

Init ==
    /\ config \in Configs
    /\ dbFactory = FALSE
    /\ utils = [f \in Families |-> 0]
    /\ connectionPool = [f \in Families |-> EmptyPool]
    /\ nextConn = 0
    /\ ended = {}
    /\ call = NoCall
    /\ arg = ""
    /\ ret = NoReturn
    /\ runner = NoRunner
    /\ inFlight = NoLines

Next ==
    \/ ExecuteQuery
    \/ ListDatabases
    \/ ListTables
    \/ DescribeTable
    \/ ShowIndexes
    \/ ExplainQuery
    \/ TestConnection
    \/ CloseConnections
    \/ FactoryCloseAll
    \/ AdapterCloseAll

Spec == Init /\ [][Next]_vars

(***************************************************************************)
(* The validator functions on generated statements                         *)
(***************************************************************************)

\* the longest statement generated, in words
MaxWords == 3

\* words around the gate keywords: a keyword in another casing, the second
\* word of a blacklisted phrase, identifiers that embed a keyword (in front
\* and inside), and a plain identifier
GateWords == {"Drop", "DATABASE", "DROPs", "backdrop", "x"}

\* words around the default limit: SELECT as a token and as a prefix of a
\* longer token, an existing limit, a plain identifier, another statement type
LimitWords == {"Select", "SELECT*", "limit", "t", "INSERT"}

Separators == {" ", "\t"}

Paddings == {"", " "}

RECURSIVE Join(_, _)
Join(words, sep) ==
    IF Len(words) = 0 THEN ""
    ELSE IF Len(words) = 1 THEN words[1]
    ELSE words[1] \o sep \o Join(Tail(words), sep)

WordSeqs(words) == UNION {[1..n -> words] : n \in 1..MaxWords}

Generated(words) ==
    {pad \o Join(ws, sep) \o pad :
        pad \in Paddings, sep \in Separators, ws \in WordSeqs(words)}

\* words around the advisories: the statement types they are about in
\* another casing, the clauses they look for, the star, another statement type
AdvisoryWords == {"Update", "where", "Select", "*", "limit", "INSERT"}

Statements ==
    Generated(GateWords) \cup Generated(LimitWords) \cup Generated(AdvisoryWords)

\* the lists the two gate functions are applied with
OperationLists ==
    {<<>>, <<"DROP DATABASE">>, <<"x x", "Drop Database">>, <<"DROP">>,
     <<"DELETE", "drop">>}

\* the default limits applyDefaultLimit is applied with
Limits == {5, 100}

Return(fn, input, value) == [fn |-> fn, input |-> input, value |-> value]

\* each action applies one validator function to the statement drawn; the
\* functions are pure, so one application per statement shows them all

CheckBlacklist ==
    /\ ret = NoReturn
    /\ \E blacklistedOperations \in OperationLists :
          ret' = Return("checkBlacklist", blacklistedOperations,
                        checkBlacklist(arg, blacklistedOperations))
    /\ UNCHANGED <<adapterVars, arg, runner, inFlight>>

RequiresConfirmation ==
    /\ ret = NoReturn
    /\ \E confirmationOperations \in OperationLists :
          ret' = Return("requiresConfirmation", confirmationOperations,
                        requiresConfirmation(arg, confirmationOperations))
    /\ UNCHANGED <<adapterVars, arg, runner, inFlight>>

GetQueryType ==
    /\ ret = NoReturn
    /\ ret' = Return("getQueryType", <<>>, getQueryType(arg))
    /\ UNCHANGED <<adapterVars, arg, runner, inFlight>>

AnalyzeQuery ==
    /\ ret = NoReturn
    /\ ret' = Return("analyzeQuery", <<>>, analyzeQuery(arg))
    /\ UNCHANGED <<adapterVars, arg, runner, inFlight>>

ApplyDefaultLimit ==
    /\ ret = NoReturn
    /\ \E defaultLimit \in Limits :
          ret' = Return("applyDefaultLimit", <<defaultLimit>>,
                        applyDefaultLimit(arg, defaultLimit))
    /\ UNCHANGED <<adapterVars, arg, runner, inFlight>>

\* the configuration loadConfig returns for a file without a safety section
DefaultConfig ==
    [profiles |-> Profiles, safety |-> SafetyCamelCase,
     defaultProfile |-> "local", defaultFormat |-> "table"]

InitValidator ==
    /\ config = DefaultConfig
    /\ dbFactory = FALSE
    /\ utils = [f \in Families |-> 0]
    /\ connectionPool = [f \in Families |-> EmptyPool]
    /\ nextConn = 0
    /\ ended = {}
    /\ call = NoCall
    /\ arg \in Statements
    /\ ret = NoReturn
    /\ runner = NoRunner
    /\ inFlight = NoLines

NextValidator ==
    \/ CheckBlacklist
    \/ RequiresConfirmation
    \/ GetQueryType
    \/ AnalyzeQuery
    \/ ApplyDefaultLimit

SpecValidator == InitValidator /\ [][NextValidator]_vars

(***************************************************************************)
(* Properties of the validator functions (under SpecValidator)             *)
(***************************************************************************)

\* two texts equal up to letter casing, character by character
EqIgnoreCase(a, b) ==
    /\ Len(a) = Len(b)
    /\ \A i \in 1..Len(a) : UpperChar(CharAt(a, i)) = UpperChar(CharAt(b, i))

\* the positions at which `phrase` occurs in `text` in any letter casing
Occurrences(phrase, text) ==
    {p \in 1..(Len(text) - Len(phrase) + 1) :
        EqIgnoreCase(SubSeq(text, p, p + Len(phrase) - 1), phrase)}

IdentChars ==
    {"A", "B", "C", "D", "E", "F", "G", "H", "I", "J", "K", "L", "M", "N", "O",
     "P", "Q", "R", "S", "T", "U", "V", "W", "X", "Y", "Z", "0", "1", "2", "3",
     "4", "5", "6", "7", "8", "9", "_"}

IsIdentChar(c) == UpperChar(c) \in IdentChars

\* the occurrence of `phrase` at p lies inside a longer identifier
EmbeddedAt(phrase, text, p) ==
    \/ p > 1 /\ IsIdentChar(CharAt(text, p - 1))
    \/ p + Len(phrase) <= Len(text) /\ IsIdentChar(CharAt(text, p + Len(phrase)))

\* `phrase` occurs in `text`, and only inside longer identifiers
OnlyEmbedded(phrase, text) ==
    /\ Occurrences(phrase, text) # {}
    /\ \A p \in Occurrences(phrase, text) : EmbeddedAt(phrase, text, p)

BlacklistReason(phrase) ==
    Some("Operation \"" \o phrase \o "\" is blacklisted and not allowed")

\* C4: for every list of blacklisted phrases and every statement, if some
\* phrase occurs in the trimmed statement in any letter casing then
\* checkBlacklist answers allowed = FALSE with the reason naming a phrase that
\* occurs; if none occurs it answers allowed = TRUE with no reason.
C4_CheckBlacklist ==
    ret.fn = "checkBlacklist" =>
        LET ops == ret.input
            matched == {i \in 1..Len(ops) : Occurrences(ops[i], Trim(arg)) # {}}
        IN  IF matched # {}
            THEN /\ ret.value.allowed = FALSE
                 /\ \E i \in matched : ret.value.reason = BlacklistReason(ops[i])
            ELSE /\ ret.value.allowed = TRUE
                 /\ ret.value.reason = None

\* C4, witness: a statement refused although no phrase of the list occurs in
\* it letter for letter (the match is by case folding), with padding trimmed
C4_Witness ==
    /\ ret.fn = "checkBlacklist"
    /\ ret.value.allowed = FALSE
    /\ \A i \in 1..Len(ret.input) : ~Includes(arg, ret.input[i])
    /\ Trim(arg) # arg

\* C5 as the claim states it: a statement that begins with a keyword requires
\* confirmation, and a statement whose keywords occur only inside longer
\* identifiers (the leading token included) does not.
C5_AsStated ==
    ret.fn = "requiresConfirmation" =>
        LET ops == ret.input
            T == Trim(arg)
        IN  /\ \A i \in 1..Len(ops) :
                  1 \in Occurrences(ops[i], T) => ret.value.required = TRUE
            /\ ( /\ \E i \in 1..Len(ops) : OnlyEmbedded(ops[i], T)
                 /\ \A i \in 1..Len(ops) :
                       Occurrences(ops[i], T) = {} \/ OnlyEmbedded(ops[i], T) )
               => ret.value.required = FALSE

\* C5: a statement whose trimmed text begins with the characters of a keyword
\* (as a prefix, whether or not the leading token ends there) requires
\* confirmation; a statement whose keywords occur only inside longer
\* identifiers, none of them at the very beginning, does not.
C5_RequiresConfirmation ==
    ret.fn = "requiresConfirmation" =>
        LET ops == ret.input
            T == Trim(arg)
        IN  /\ \A i \in 1..Len(ops) :
                  1 \in Occurrences(ops[i], T) => ret.value.required = TRUE
            /\ ( /\ \E i \in 1..Len(ops) : OnlyEmbedded(ops[i], T)
                 /\ \A i \in 1..Len(ops) :
                       \/ Occurrences(ops[i], T) = {}
                       \/ OnlyEmbedded(ops[i], T) /\ 1 \notin Occurrences(ops[i], T) )
               => ret.value.required = FALSE

\* C5, witness: confirmation required for a statement in which every keyword
\* of the list occurs only inside a longer identifier, one of them as the
\* prefix of the leading token
C5_Witness ==
    /\ ret.fn = "requiresConfirmation"
    /\ ret.value.required = TRUE
    /\ \E i \in 1..Len(ret.input) :
          /\ 1 \in Occurrences(ret.input[i], Trim(arg))
          /\ OnlyEmbedded(ret.input[i], Trim(arg))
    /\ \A i \in 1..Len(ret.input) :
          \/ Occurrences(ret.input[i], Trim(arg)) = {}
          \/ OnlyEmbedded(ret.input[i], Trim(arg))

LimitAppended(text, n) == Trim(text) \o " LIMIT " \o NumberToString(n)

\* C9 as the claim states it: applyDefaultLimit changes a statement exactly
\* when its classification is SELECT and it holds no LIMIT in any casing,
\* and then returns the trimmed statement followed by " LIMIT n".
C9_AsStated ==
    ret.fn = "applyDefaultLimit" =>
        IF getQueryType(arg) = "SELECT" /\ Occurrences("LIMIT", arg) = {}
        THEN ret.value = LimitAppended(arg, ret.input[1])
        ELSE ret.value = arg

\* C9: applyDefaultLimit changes a statement exactly when its trimmed text
\* begins with the characters SELECT in any casing (a prefix, not a token)
\* and it holds no LIMIT in any casing; it then returns the trimmed statement
\* followed by " LIMIT n", and otherwise the statement as it was given.
C9_ApplyDefaultLimit ==
    ret.fn = "applyDefaultLimit" =>
        IF 1 \in Occurrences("SELECT", Trim(arg)) /\ Occurrences("LIMIT", arg) = {}
        THEN ret.value = LimitAppended(arg, ret.input[1])
        ELSE ret.value = arg

\* C9, witness: a padded statement whose classification is not SELECT and
\* which applyDefaultLimit changed
C9_Witness ==
    /\ ret.fn = "applyDefaultLimit"
    /\ getQueryType(arg) # "SELECT"
    /\ ret.value # arg
    /\ Trim(arg) # arg

(***************************************************************************)
(* Properties of the query and explain-query paths (under Spec)            *)
(***************************************************************************)

\* the last call is `op` of the dispatcher for a profile of the configuration
Dispatched(op) == call.op = op /\ call.profile \in ProfileNames

\* the two checks of the gate on the SafetyPolicy of the configuration
Blacklisted(query) == ~checkBlacklist(query, PolicyOf(config).blacklist).allowed

NeedsConfirmation(query) ==
    requiresConfirmation(query, PolicyOf(config).confirm).required

\* the gate outcome of a statement as a function of the statement text and
\* the SafetyPolicy only
PolicyOutcome(query) ==
    CASE Blacklisted(query)       -> "blocked"
      [] NeedsConfirmation(query) -> "confirmation"
      [] OTHER                    -> "proceed"

\* the gate outcome the last executeQuery call showed
CallOutcome ==
    CASE call.threw                                   -> "throws"
      [] call.result.requiresConfirmation = Some(TRUE) -> "confirmation"
      [] call.acquired                                 -> "proceed"
      [] OTHER                                         -> "blocked"

NothingAttempted == ~call.acquired /\ call.made = 0 /\ call.sent = <<>>

\* C1: executeQuery of a statement that matches a blacklisted phrase, on
\* either adapter, returns success = FALSE with an error text that holds the
\* block reason, and looks up or creates no connection and sends nothing.
C1_BlacklistedBlocked ==
    (Dispatched("executeQuery") /\ Blacklisted(call.query)) =>
        /\ ~call.threw
        /\ call.result.success = FALSE
        /\ IsSome(call.result.error)
        /\ Includes(Get(call.result.error),
                    Get(checkBlacklist(call.query, PolicyOf(config).blacklist).reason))
        /\ NothingAttempted

\* C2: executeQuery of a statement that is not blacklisted and for which the
\* confirmation check is positive, on either adapter and after any calls,
\* returns success = FALSE, requiresConfirmation = TRUE and a message naming
\* the matched keyword, acquires no connection and sends nothing.
C2_ConfirmationNeverSent ==
    (Dispatched("executeQuery") /\ ~Blacklisted(call.query)
        /\ NeedsConfirmation(call.query)) =>
        /\ ~call.threw
        /\ call.result.success = FALSE
        /\ call.result.requiresConfirmation = Some(TRUE)
        /\ IsSome(call.result.message)
        /\ Includes(Get(call.result.message),
                    Get(requiresConfirmation(call.query,
                                             PolicyOf(config).confirm).message))
        /\ NothingAttempted

\* C3: executeQuery of a statement that matches both a blacklisted phrase
\* and a confirmation keyword returns the blocked result (success = FALSE
\* with an error, requiresConfirmation not set), never the
\* confirmation-required result.
C3_BlacklistFirst ==
    (Dispatched("executeQuery") /\ Blacklisted(call.query)
        /\ NeedsConfirmation(call.query)) =>
        /\ ~call.threw
        /\ call.result.success = FALSE
        /\ IsSome(call.result.error)
        /\ call.result.requiresConfirmation = None

\* C6: explainQuery of a statement that matches a blacklisted phrase or a
\* confirmation keyword sends no statement holding that text to the driver.
C6_ExplainGated ==
    (Dispatched("explainQuery")
        /\ (Blacklisted(call.query) \/ NeedsConfirmation(call.query))) =>
        \A i \in 1..Len(call.sent) : ~Includes(call.sent[i].text, call.query)

\* every run of whitespace replaced by one space
RECURSIVE CollapseWhitespace(_)
CollapseWhitespace(s) ==
    IF Len(s) = 0 THEN ""
    ELSE IF IsWhitespace(CharAt(s, 1))
    THEN " " \o CollapseWhitespace(TrimStart(s))
    ELSE CharAt(s, 1) \o CollapseWhitespace(SubSeq(s, 2, Len(s)))

\* the words of a blacklisted phrase appear in the statement consecutively,
\* in any casing, separated by any whitespace
PhraseWordsAppear(query) ==
    \E i \in 1..Len(PolicyOf(config).blacklist) :
        Occurrences(CollapseWhitespace(PolicyOf(config).blacklist[i]),
                    CollapseWhitespace(query)) # {}

\* C7: a statement in which the words of a blacklisted phrase appear
\* consecutively, in any casing and separated by any whitespace, is never
\* sent to the driver by executeQuery.
C7_CompletelyBlocked ==
    (Dispatched("executeQuery") /\ PhraseWordsAppear(call.query)) =>
        call.sent = <<>>

\* C8: when executeQuery sends a statement, the text sent is
\* applyDefaultLimit(statement, limit) if the classification is SELECT (so
\* it holds a LIMIT) and the submitted text otherwise; a successful result
\* carries the default-limit notice exactly when the text sent differs from
\* the text submitted; with limit 100, "SELECT * FROM users" is sent as
\* "SELECT * FROM users LIMIT 100" and its result carries the SELECT *
\* advisory and the notice.
C8_DefaultLimitSent ==
    (Dispatched("executeQuery") /\ call.sent # <<>>) =>
        LET limit == PolicyOf(config).limit
            text == call.sent[1].text
            notice == "Applied default LIMIT " \o NumberToString(limit)
        IN  /\ Len(call.sent) = 1
            /\ IF getQueryType(call.query) = "SELECT"
               THEN /\ text = applyDefaultLimit(call.query, limit)
                    /\ Occurrences("LIMIT", text) # {}
               ELSE text = call.query
            /\ call.result.success =>
                  (Includes(Get(call.result.result), notice) <=> text # call.query)
            /\ (call.query = "SELECT * FROM users" /\ limit = 100) =>
                  /\ text = "SELECT * FROM users LIMIT 100"
                  /\ call.result.success =>
                        /\ Includes(Get(call.result.result), StarWarning.message)
                        /\ Includes(Get(call.result.result), "Applied default LIMIT 100")

\* C8, witness: "SELECT * FROM users" executed with success on the
\* PostgreSQL adapter, sent with the default limit appended
C8_Witness ==
    /\ Dispatched("executeQuery")
    /\ call.family = "postgresql"
    /\ call.query = "SELECT * FROM users"
    /\ call.result.success
    /\ call.sent = <<Sent(call.made, "SELECT * FROM users LIMIT 100")>>

\* C10: the gate outcome of executeQuery (blocked, confirmation required or
\* proceed) is a function of the statement text and the SafetyPolicy only,
\* whatever calls came before, and a blocked or confirmation-required call
\* creates, looks up and sends nothing.
C10_StatelessOutcome ==
    Dispatched("executeQuery") =>
        /\ CallOutcome = PolicyOutcome(call.query)
        /\ CallOutcome \in {"blocked", "confirmation"} => NothingAttempted

(***************************************************************************)
(* Properties of the adapters, the factory and the dispatcher (under Spec) *)
(***************************************************************************)

CloseOperations == {"closeConnections", "factory.closeAll", "util.closeAll"}

\* the last call is an adapter operation dispatched for a profile of the
\* configuration
Served == call.op \in Operations /\ call.profile \in ProfileNames

\* C11: when acquiring the connection/pool or running the query fails with
\* message m in any of the seven operations on either adapter, the operation
\* returns success = FALSE with error = "ERROR: " followed by m, and throws
\* nothing.
C11_DriverFailureReturned ==
    (call.op \in Operations /\ IsSome(call.failure)) =>
        /\ ~call.threw
        /\ call.result.success = FALSE
        /\ call.result.error = Some("ERROR: " \o Get(call.failure))
        /\ call.result.result = None

\* C11, witness: a failed acquisition on the PostgreSQL adapter (nothing
\* sent) reported by testConnection
C11_Witness ==
    /\ call.op = "testConnection"
    /\ call.family = "postgresql"
    /\ IsSome(call.failure)
    /\ call.sent = <<>>
    /\ call.result.success = FALSE

\* C12: every dispatcher call completes by returning a result; a call for a
\* profile the configuration does not hold returns success = FALSE with an
\* error text.
C12_NothingThrows ==
    call.op \in Operations =>
        /\ ~call.threw
        /\ call.profile \notin ProfileNames =>
              call.result.success = FALSE /\ IsSome(call.result.error)

\* C13: for the same configuration and statement the two adapters reach the
\* same gate outcome with the same result or final statement, and neither
\* throws.
C13_SameContract ==
    (call.op = "executeQuery" /\ Served) =>
        /\ ~call.threw
        /\ MySQLUtil_plans[config][call.query].verdict.outcome # "throws"
        /\ PostgreSQLUtil_plans[config][call.query].verdict.outcome # "throws"
        /\ MySQLUtil_plans[config][call.query] = PostgreSQLUtil_plans[config][call.query]

\* the (family, profile) entries of the adapters' maps
Entries == Families \X ProfileNames

Entry(e) == connectionPool[e[1]][e[2]]

\* C14: a connection/pool is created for a profile only when the adapter's
\* map has none for it, every later operation on the profile uses that same
\* object until a close, and the connections of different profiles are
\* distinct.
C14_OneConnectionPerProfile ==
    /\ [](\A e1 \in Entries, e2 \in Entries :
            (e1 # e2 /\ Entry(e1) # 0) => Entry(e1) # Entry(e2))
    /\ [][ /\ call'.made # 0 =>
                /\ connectionPool[call'.family][call'.profile] = 0
                /\ connectionPool'[call'.family][call'.profile] = call'.made
           /\ \A f \in Families, p \in ProfileNames :
                (connectionPool[f][p] # 0 /\ call'.op \notin CloseOperations) =>
                    /\ connectionPool'[f][p] = connectionPool[f][p]
                    /\ (call'.family = f /\ call'.profile = p) =>
                          /\ call'.made = 0
                          /\ \A i \in 1..Len(call'.sent) :
                                call'.sent[i].connection = connectionPool[f][p]
         ]_vars

\* C14, witness: an operation served on the connection an earlier operation
\* created, while another profile of the same adapter holds its own
C14_Witness ==
    /\ Served
    /\ call.made = 0
    /\ call.sent # <<>>
    /\ call.sent[1].connection = connectionPool.mysql[call.profile]
    /\ \E p \in ProfileNames \ {call.profile} : connectionPool.mysql[p] # 0

\* C15: without a close in between, the factory creates the adapter of a
\* family on the first request and returns that instance for every profile of
\* the family; a profile with no type is served by the MySQL adapter and a
\* profile of type postgresql by the PostgreSQL adapter.
C15_OneAdapterPerFamily ==
    /\ [](Served =>
            /\ call.family = (IF config.profiles[call.profile].type = Some("postgresql")
                              THEN "postgresql" ELSE "mysql")
            /\ call.util # 0
            /\ call.util = utils[call.family]
            /\ (call.op = "testConnection" /\ call.result.success) =>
                  Includes(Get(call.result.result),
                           IF call.profile = "pg" THEN "PostgreSQL Version"
                           ELSE "\nMySQL Version"))
    /\ [][ \A f \in Families :
             (utils[f] # 0 /\ call'.op \notin CloseOperations) =>
                 /\ utils'[f] = utils[f]
                 /\ call'.family = f => call'.util = utils[f]
         ]_vars

\* C15, witness: the profile with no type served by the MySQL adapter
\* instance that already holds the connection of another profile
C15_Witness ==
    /\ Served
    /\ call.profile = "local"
    /\ call.family = "mysql"
    /\ call.util = utils.mysql
    /\ connectionPool.mysql["prod"] # 0

\* every connection/pool in the maps of the adapters
AllConnections == UNION {Connections(connectionPool[f]) : f \in Families}

C19_FailureKeepsConnection ==
    [][ /\ ( /\ call'.op \in Operations
             /\ IsSome(call'.failure)
             /\ call'.sent # <<>>
             /\ call'.made = 0 ) =>
                /\ Len(call'.sent) = 1
                /\ connectionPool[call'.family][call'.profile] # 0
                /\ call'.sent[1].connection = connectionPool[call'.family][call'.profile]
                /\ connectionPool' = connectionPool
        /\ \A f \in Families, p \in ProfileNames :
             (connectionPool[f][p] # 0 /\ connectionPool'[f][p] # connectionPool[f][p])
                => call'.op \in CloseOperations
      ]_vars

\* C19, witness: a query that failed on the connection the map already held
\* and still holds
C19_Witness ==
    /\ Served
    /\ IsSome(call.failure)
    /\ call.made = 0
    /\ call.sent # <<>>
    /\ connectionPool[call.family][call.profile] = call.sent[1].connection

(***************************************************************************)
(* The headless runner: one process per command (commands/runner.ts)       *)
(***************************************************************************)

\* the command names of the runner and the dispatcher function each calls
RunnerCommands ==
    [ query |-> "executeQuery", list_databases |-> "listDatabases",
      list_tables |-> "listTables", describe_table |-> "describeTable",
      show_indexes |-> "showIndexes", explain_query |-> "explainQuery",
      test_connection |-> "testConnection" ]

Process(pc, exitCode) == [pc |-> pc, exitCode |-> exitCode]

\* the try body of runCommand up to the awaited dispatcher call: the result
\* is held for display, or the exception is caught
RunnerDispatch ==
    /\ runner.pc = "start"
    /\ \E command \in DOMAIN RunnerCommands, profile \in AnyProfile,
          query \in ExplainQueries, table \in Tables, driver \in DriverBehaviours :
          Dispatch(RunnerCommands[command], profile,
                   IF command \in {"query", "explain_query"} THEN query ELSE "",
                   IF command \in {"describe_table", "show_indexes"} THEN table ELSE "",
                   driver)
    /\ runner' = Process(IF call'.threw THEN "catch" ELSE "display", -1)
    /\ UNCHANGED <<arg, ret, inFlight>>

\* a command with a missing parameter or an unknown name: process.exit(1)
\* before any dispatcher call
RunnerReject ==
    /\ runner.pc = "start"
    /\ runner' = Process("exited", 1)
    /\ UNCHANGED <<adapterVars, arg, ret, inFlight>>

\* display of the result: a failed result is printed and the process exits
\* with 1; a successful one is printed and control goes on to the close
RunnerDisplay ==
    /\ runner.pc = "display"
    /\ runner' = IF call.result.success THEN Process("close", -1)
                 ELSE Process("exited", 1)
    /\ UNCHANGED <<adapterVars, arg, ret, inFlight>>

\* await closeConnections() after a displayed result; runCommand returns
RunnerClose ==
    /\ runner.pc = "close"
    /\ closeConnections
    /\ runner' = Process("returned", 0)
    /\ UNCHANGED <<arg, ret, inFlight>>

\* the catch block: closeConnections, then process.exit(1)
RunnerCatch ==
    /\ runner.pc = "catch"
    /\ closeConnections
    /\ runner' = Process("exited", 1)
    /\ UNCHANGED <<arg, ret, inFlight>>

InitRunner ==
    /\ config \in Configs
    /\ dbFactory = FALSE
    /\ utils = [f \in Families |-> 0]
    /\ connectionPool = [f \in Families |-> EmptyPool]
    /\ nextConn = 0
    /\ ended = {}
    /\ call = NoCall
    /\ arg = ""
    /\ ret = NoReturn
    /\ runner = Process("start", -1)
    /\ inFlight = NoLines

NextRunner ==
    \/ RunnerDispatch
    \/ RunnerReject
    \/ RunnerDisplay
    \/ RunnerClose
    \/ RunnerCatch

SpecRunner == InitRunner /\ [][NextRunner]_vars

\* C17: when the headless process has exited or runCommand has returned,
\* every connection/pool the run opened has been ended by closeConnections.
C17_ClosedBeforeExit ==
    runner.pc \in {"exited", "returned"} =>
        /\ \A id \in 1..nextConn : id \in ended
        /\ \A f \in Families : connectionPool[f] = EmptyPool

(***************************************************************************)
(* The interactive session (cli/wrapper.ts)                                *)
(***************************************************************************)

\* most line handlers awaiting their operation that the model follows
MaxInFlight == 2

\* the command lines typed; the session's current profile is the default one
ReplLines ==
    { [op |-> "testConnection", profile |-> "local", query |-> "", table |-> ""],
      [op |-> "listTables", profile |-> "pg", query |-> "", table |-> ""],
      [op |-> "executeQuery", profile |-> "local", query |-> "SELECT * FROM users",
       table |-> ""],
      [op |-> "describeTable", profile |-> "staging", query |-> "", table |-> "users"] }

\* a 'line' event: the async listener calls handleCommand, which reaches the
\* awaited dispatcher call of runCommand; the listener is not awaited by the
\* emitter and the input is not paused
ReplLine ==
    /\ runner.pc = "repl"
    /\ Len(inFlight) < MaxInFlight
    /\ \E line \in ReplLines : inFlight' = Append(inFlight, line)
    /\ UNCHANGED <<adapterVars, arg, ret, runner>>

\* an awaited operation returns (or throws into the catch block): the
\* result is displayed and the prompt shown
ReplSettle ==
    /\ runner.pc = "repl"
    /\ \E i \in 1..Len(inFlight), driver \in DriverBehaviours :
          /\ Dispatch(inFlight[i].op, inFlight[i].profile, inFlight[i].query,
                      inFlight[i].table, driver)
          /\ inFlight' = SubSeq(inFlight, 1, i - 1)
                         \o SubSeq(inFlight, i + 1, Len(inFlight))
    /\ UNCHANGED <<arg, ret, runner>>

\* the 'close' event: closeConnections, then process.exit(0)
ReplClose ==
    /\ runner.pc = "repl"
    /\ closeConnections
    /\ runner' = Process("exited", 0)
    /\ inFlight' = NoLines
    /\ UNCHANGED <<arg, ret>>

InitRepl ==
    /\ config \in Configs
    /\ dbFactory = FALSE
    /\ utils = [f \in Families |-> 0]
    /\ connectionPool = [f \in Families |-> EmptyPool]
    /\ nextConn = 0
    /\ ended = {}
    /\ call = NoCall
    /\ arg = ""
    /\ ret = NoReturn
    /\ runner = Process("repl", -1)
    /\ inFlight = NoLines

NextRepl ==
    \/ ReplLine
    \/ ReplSettle
    \/ ReplClose

SpecRepl == InitRepl /\ [][NextRepl]_vars

\* C18: in the interactive session at most one line handler is awaiting its
\* database operation at any time.
C18_OneInFlight == Len(inFlight) <= 1

(***************************************************************************)
(* The table encoding (formatAsTable of the two adapters)                  *)
(***************************************************************************)

\* most rows of a formatted result
MaxRows == 2

Max(S) == CHOOSE x \in S : \A y \in S : x >= y

RECURSIVE Repeat(_, _)
Repeat(s, count) == IF count <= 0 THEN "" ELSE s \o Repeat(s, count - 1)

PadEnd(s, width) == s \o Repeat(" ", width - Len(s))

\* the lines of a text
RECURSIVE Split(_, _)
Split(s, from) ==
    LET stops == {i \in from..Len(s) : CharAt(s, i) = "\n"}
    IN  IF stops = {} THEN <<SubSeq(s, from, Len(s))>>
        ELSE <<SubSeq(s, from, Min(stops) - 1)>> \o Split(s, Min(stops) + 1)

\* String(row[name] ?? ''), the text a cell is measured by
Measured(cell) == IF IsSome(cell) THEN Get(cell) ELSE ""

\* String(row[name] ?? 'NULL'), the text a cell is rendered as
Rendered(cell) == IF IsSome(cell) THEN Get(cell) ELSE "NULL"

columnWidths(rows, columnNames) ==
    [i \in 1..Len(columnNames) |->
        LET name == columnNames[i]
            dataWidth == Max({Len(Measured(rows[r][name])) : r \in 1..Len(rows)})
        IN  Max({Len(name), dataWidth, 3})]

\* a horizontal rule of the grid
Rule(left, cross, right, widths) ==
    left \o Join([i \in 1..Len(widths) |-> Repeat("-", widths[i] + 2)], cross)
         \o right

\* formatAsTable; the box-drawing characters of the source, one code unit
\* each, are written "-" (horizontal), "|" (vertical) and "+" (corners and
\* crossings)
RECURSIVE RowLines(_, _, _)
RowLines(rows, columnNames, widths) ==
    IF rows = <<>> THEN ""
    ELSE "| " \o Join([i \in 1..Len(columnNames) |->
                         PadEnd(Rendered(Head(rows)[columnNames[i]]), widths[i])],
                      " | ")
              \o " |\n" \o RowLines(Tail(rows), columnNames, widths)

MySQLUtil_formatAsTable(rows, columnNames) ==
    IF Len(rows) = 0 THEN "No results"
    ELSE LET widths == columnWidths(rows, columnNames)
         IN  Rule("+", "+", "+\n", widths)
             \o "| " \o Join([i \in 1..Len(columnNames) |->
                                PadEnd(columnNames[i], widths[i])], " | ")
             \o " |\n"
             \o Rule("+", "+", "+\n", widths)
             \o RowLines(rows, columnNames, widths)
             \o Rule("+", "+", "+", widths)

\* the PostgreSQL adapter's formatAsTable is the same code with the box
\* characters written as escapes
PostgreSQLUtil_formatAsTable(rows, columnNames) ==
    MySQLUtil_formatAsTable(rows, columnNames)

\* String.prototype.replace with a global pattern of one character
RECURSIVE ReplaceAll(_, _, _)
ReplaceAll(s, c, by) ==
    IF Len(s) = 0 THEN ""
    ELSE (IF CharAt(s, 1) = c THEN by ELSE CharAt(s, 1))
         \o ReplaceAll(SubSeq(s, 2, Len(s)), c, by)

\* a cell of the CSV text that is quoted only for a comma or a quote
csvValue_NoNewline(cell) ==
    IF Includes(Measured(cell), ",") \/ Includes(Measured(cell), "\"")
    THEN "\"" \o ReplaceAll(Measured(cell), "\"", "\"\"") \o "\""
    ELSE Measured(cell)

\* the value of a cell in formatAsCsv: String(row[name] ?? ''), wrapped in
\* quotes with the quotes doubled when it holds a comma, a quote or a newline
csvValue(cell) ==
    IF \/ Includes(Measured(cell), ",")
       \/ Includes(Measured(cell), "\"")
       \/ Includes(Measured(cell), "\n")
    THEN "\"" \o ReplaceAll(Measured(cell), "\"", "\"\"") \o "\""
    ELSE Measured(cell)

RECURSIVE CsvLines(_, _)
CsvLines(rows, columnNames) ==
    IF rows = <<>> THEN ""
    ELSE Join([i \in 1..Len(columnNames) |-> csvValue(Head(rows)[columnNames[i]])],
              ",")
         \o "\n" \o CsvLines(Tail(rows), columnNames)

\* formatAsCsv with a header line for an empty row set too
MySQLUtil_formatAsCsv_Header(rows, columnNames) ==
    Join(columnNames, ",") \o "\n" \o CsvLines(rows, columnNames)

MySQLUtil_formatAsCsv(rows, columnNames) ==
    IF Len(rows) = 0 THEN ""
    ELSE Join(columnNames, ",") \o "\n" \o CsvLines(rows, columnNames)

\* the PostgreSQL adapter's formatAsCsv is the same code
PostgreSQLUtil_formatAsCsv(rows, columnNames) ==
    MySQLUtil_formatAsCsv(rows, columnNames)

\* JSON.stringify of a string
JsonString(s) ==
    "\"" \o ReplaceAll(ReplaceAll(ReplaceAll(s, "\\", "\\\\"), "\"", "\\\""),
                       "\n", "\\n")
         \o "\""

JsonValue(cell) == IF IsSome(cell) THEN JsonString(Get(cell)) ELSE "null"

\* JSON.stringify(row, null, 2) at the second level of an array; keys is the
\* property order of the row objects
JsonObject(row, keys) ==
    "  {\n"
    \o Join([i \in 1..Len(keys) |->
               "    " \o JsonString(keys[i]) \o ": " \o JsonValue(row[keys[i]])],
            ",\n")
    \o "\n  }"

\* formatAsJson: JSON.stringify(rows, null, 2)
MySQLUtil_formatAsJson(rows, keys) ==
    IF Len(rows) = 0 THEN "[]"
    ELSE "[\n" \o Join([r \in 1..Len(rows) |-> JsonObject(rows[r], keys)], ",\n")
         \o "\n]"

\* encode of the TOON library on a string: quoted when empty, when it holds
\* a delimiter, a colon, a quote, a backslash or a control character, or
\* when it reads as a number
ToonString(s) ==
    IF \/ s = ""
       \/ \E c \in {",", ":", "\"", "\\", "\n"} : Includes(s, c)
       \/ \A i \in 1..Len(s) : CharAt(s, i) \in {"0", "1", "2", "3", "4", "5", "6",
                                                 "7", "8", "9"}
    THEN JsonString(s)
    ELSE s

ToonValue(cell) == IF IsSome(cell) THEN ToonString(Get(cell)) ELSE "null"

\* encode of the TOON library on an array of uniform objects of primitive
\* values: the tabular form, a header "[N]{keys}:" and one line per object
encode(rows, keys) ==
    "[" \o NumberToString(Len(rows)) \o "]{"
    \o Join([i \in 1..Len(keys) |-> ToonString(keys[i])], ",") \o "}:"
    \o Join([r \in 1..Len(rows) |->
               "\n  " \o Join([i \in 1..Len(keys) |-> ToonValue(rows[r][keys[i]])],
                              ",")],
            "")

\* formatAsToon; the cells of the model are strings or null, which the
\* serialisation loop copies unchanged
MySQLUtil_formatAsToon(rows, keys) ==
    IF Len(rows) = 0 THEN "" ELSE encode(rows, keys)

\* the column lists and the cells of the results formatted
FieldLists == {<<"id">>, <<"name">>, <<"a,b">>, <<"id", "name">>}

Cells == {None, Some("7"), Some("alice"), Some("Doe, \"Johnny\""), Some("a\nb")}

Range(seq) == {seq[i] : i \in 1..Len(seq)}

RowSeqs(columnNames) ==
    UNION {[1..n -> [Range(columnNames) -> Cells]] : n \in 0..MaxRows}

QueryResults ==
    UNION {{[fields |-> columnNames, rows |-> rows] : rows \in RowSeqs(columnNames)} :
              columnNames \in FieldLists}

FormatMySQL ==
    /\ ret = NoReturn
    /\ ret' = Return("MySQLUtil.formatAsTable", <<>>,
                     MySQLUtil_formatAsTable(arg.rows, arg.fields))
    /\ UNCHANGED <<adapterVars, arg, runner, inFlight>>

FormatPostgreSQL ==
    /\ ret = NoReturn
    /\ ret' = Return("PostgreSQLUtil.formatAsTable", <<>>,
                     PostgreSQLUtil_formatAsTable(arg.rows, arg.fields))
    /\ UNCHANGED <<adapterVars, arg, runner, inFlight>>

InitFormatter ==
    /\ config = DefaultConfig
    /\ dbFactory = FALSE
    /\ utils = [f \in Families |-> 0]
    /\ connectionPool = [f \in Families |-> EmptyPool]
    /\ nextConn = 0
    /\ ended = {}
    /\ call = NoCall
    /\ arg \in QueryResults
    /\ ret = NoReturn
    /\ runner = NoRunner
    /\ inFlight = NoLines

FormatCsvMySQL ==
    /\ ret = NoReturn
    /\ ret' = Return("MySQLUtil.formatAsCsv", <<>>,
                     MySQLUtil_formatAsCsv(arg.rows, arg.fields))
    /\ UNCHANGED <<adapterVars, arg, runner, inFlight>>

FormatCsvPostgreSQL ==
    /\ ret = NoReturn
    /\ ret' = Return("PostgreSQLUtil.formatAsCsv", <<>>,
                     PostgreSQLUtil_formatAsCsv(arg.rows, arg.fields))
    /\ UNCHANGED <<adapterVars, arg, runner, inFlight>>

FormatJson ==
    /\ ret = NoReturn
    /\ ret' = Return("MySQLUtil.formatAsJson", <<>>,
                     MySQLUtil_formatAsJson(arg.rows, arg.fields))
    /\ UNCHANGED <<adapterVars, arg, runner, inFlight>>

FormatToon ==
    /\ ret = NoReturn
    /\ ret' = Return("MySQLUtil.formatAsToon", <<>>,
                     MySQLUtil_formatAsToon(arg.rows, arg.fields))
    /\ UNCHANGED <<adapterVars, arg, runner, inFlight>>

NextFormatter ==
    \/ FormatMySQL
    \/ FormatPostgreSQL
    \/ FormatCsvMySQL
    \/ FormatCsvPostgreSQL
    \/ FormatJson
    \/ FormatToon

SpecFormatter == InitFormatter /\ [][NextFormatter]_vars

TableFormatters == {"MySQLUtil.formatAsTable", "PostgreSQLUtil.formatAsTable"}

\* C20: in a formatted table each column is as wide as the longest of its
\* header, its rendered cells (NULL rendered as "NULL") and 3, and all lines
\* of the grid have the same length.
C20_TableGrid ==
    (ret.fn \in TableFormatters /\ arg.rows # <<>>) =>
        LET widths == columnWidths(arg.rows, arg.fields)
            lines == Split(ret.value, 1)
        IN  /\ \A i \in 1..Len(arg.fields) :
                  widths[i] = Max({Len(arg.fields[i]), 3}
                                  \cup {Len(Rendered(arg.rows[r][arg.fields[i]])) :
                                           r \in 1..Len(arg.rows)})
            /\ \A l \in 1..Len(lines) : Len(lines[l]) = Len(lines[1])

CsvFormatters == {"MySQLUtil.formatAsCsv", "PostgreSQLUtil.formatAsCsv"}

\* a reader of CSV text: records end at a line break, fields at a comma; a
\* field that begins with a quote runs to the closing quote, a doubled quote
\* inside it standing for one quote. fresh: nothing of a record read yet
RECURSIVE CsvScan(_, _, _, _, _, _, _)
CsvScan(text, i, quoted, fresh, field, record, records) ==
    IF i > Len(text)
    THEN IF fresh THEN records ELSE Append(records, Append(record, field))
    ELSE LET c == CharAt(text, i)
         IN  IF quoted
             THEN IF c = "\""
                  THEN IF i < Len(text) /\ CharAt(text, i + 1) = "\""
                       THEN CsvScan(text, i + 2, TRUE, FALSE, field \o "\"",
                                    record, records)
                       ELSE CsvScan(text, i + 1, FALSE, FALSE, field, record, records)
                  ELSE CsvScan(text, i + 1, TRUE, FALSE, field \o c, record, records)
             ELSE IF c = "\"" /\ field = ""
                  THEN CsvScan(text, i + 1, TRUE, FALSE, field, record, records)
                  ELSE IF c = ","
                  THEN CsvScan(text, i + 1, FALSE, FALSE, "", Append(record, field),
                               records)
                  ELSE IF c = "\n"
                  THEN CsvScan(text, i + 1, FALSE, TRUE, "", <<>>,
                               Append(records, Append(record, field)))
                  ELSE CsvScan(text, i + 1, FALSE, FALSE, field \o c, record, records)

ParseCsv(text) == CsvScan(text, 1, FALSE, TRUE, "", <<>>, <<>>)

\* the header and the cell strings of a result, as a reader should return them
CsvRecords(rows, columnNames) ==
    <<columnNames>>
    \o [r \in 1..Len(rows) |->
          [i \in 1..Len(columnNames) |-> Measured(rows[r][columnNames[i]])]]

\* C21: for a non-empty row set, reading the CSV text back gives the header
\* names in order and, row by row, the cell strings in order.
C21_CsvRoundTrip ==
    (ret.fn \in CsvFormatters /\ arg.rows # <<>>) =>
        ParseCsv(ret.value) = CsvRecords(arg.rows, arg.fields)

\* the text of a cell as the CSV encoding is described: quoted, with the
\* quotes doubled, exactly when it holds a comma, a quote or a newline
CsvQuoted(str) ==
    IF \E c \in {",", "\"", "\n"} : Includes(str, c)
    THEN "\"" \o ReplaceAll(str, "\"", "\"\"") \o "\""
    ELSE str

\* C22: every data line of the CSV text is the cells of its row joined by
\* commas, a cell being quoted with doubled quotes exactly when it holds a
\* comma, a quote or a newline, verbatim otherwise, and empty for NULL.
C22_CsvQuoting ==
    (ret.fn \in CsvFormatters /\ arg.rows # <<>>) =>
        /\ ret.value =
              Join(arg.fields, ",") \o "\n"
              \o Join([r \in 1..Len(arg.rows) |->
                         Join([i \in 1..Len(arg.fields) |->
                                 IF arg.rows[r][arg.fields[i]] = None THEN ""
                                 ELSE CsvQuoted(Get(arg.rows[r][arg.fields[i]]))],
                              ",") \o "\n"],
                      "")
        /\ csvValue(Some("Doe, \"Johnny\"")) = "\"Doe, \"\"Johnny\"\"\""

\* C22, witness: a row with the cell Doe, "Johnny", a cell with a newline
\* and a NULL among its rows, rendered as CSV
C22_Witness ==
    /\ ret.fn = "MySQLUtil.formatAsCsv"
    /\ Includes(ret.value, "\"Doe, \"\"Johnny\"\"\"")
    /\ Includes(ret.value, "\"a\nb\"")
    /\ \E r \in 1..Len(arg.rows) : \E name \in Range(arg.fields) :
          arg.rows[r][name] = None

\* C23: for an empty row set the table encoding returns "No results", json
\* returns "[]", and csv and toon return the empty text, whatever the columns.
C23_EmptySentinels ==
    (ret # NoReturn /\ arg.rows = <<>>) =>
        ret.value = CASE ret.fn \in TableFormatters -> "No results"
                      [] ret.fn = "MySQLUtil.formatAsJson" -> "[]"
                      [] ret.fn \in CsvFormatters -> ""
                      [] ret.fn = "MySQLUtil.formatAsToon" -> ""

\* C23, witness: the CSV encoding applied to an empty row set with two columns
C23_Witness ==
    /\ ret.fn = "MySQLUtil.formatAsCsv"
    /\ arg.rows = <<>>
    /\ Len(arg.fields) = 2
    /\ ret.value = ""

\* the first whitespace-delimited token of the trimmed, uppercased statement
FirstToken(s) ==
    LET upper == ToUpperCase(Trim(s))
        stops == {i \in 1..Len(upper) : IsWhitespace(CharAt(upper, i))}
    IN  IF stops = {} THEN upper ELSE SubSeq(upper, 1, Min(stops) - 1)

\* C24: getQueryType returns the first whitespace-delimited token of the
\* trimmed, uppercased statement when it is one of the eleven known types
\* and UNKNOWN otherwise; "  select id from t  " is SELECT and "" is UNKNOWN.
C24_GetQueryType ==
    /\ ret.fn = "getQueryType" =>
          ret.value = (IF FirstToken(arg) \in knownTypes THEN FirstToken(arg)
                       ELSE "UNKNOWN")
    /\ getQueryType("  select id from t  ") = "SELECT"
    /\ getQueryType("") = "UNKNOWN"

\* C24, witness: a padded statement whose first token begins with a known
\* type without being one, classified UNKNOWN
C24_Witness ==
    /\ ret.fn = "getQueryType"
    /\ ret.value = "UNKNOWN"
    /\ Trim(arg) # arg
    /\ \E type \in knownTypes : StartsWith(FirstToken(arg), type)

\* C25: analyzeQuery returns, in this order, the WHERE advisory when the
\* statement is an UPDATE or DELETE without WHERE, the star advisory when it
\* is a SELECT containing SELECT *, and the limit advisory when it is a
\* SELECT without LIMIT; a statement of another type gets no star advisory.
C25_Advisories ==
    ret.fn = "analyzeQuery" =>
        LET type == getQueryType(arg)
            upper == ToUpperCase(Trim(arg))
        IN  ret.value =
               (IF type \in {"UPDATE", "DELETE"} /\ ~Includes(upper, "WHERE")
                THEN <<WhereWarning>> ELSE <<>>)
               \o (IF type = "SELECT" /\ Includes(upper, "SELECT *")
                   THEN <<StarWarning>> ELSE <<>>)
               \o (IF type = "SELECT" /\ ~Includes(upper, "LIMIT")
                   THEN <<LimitWarning>> ELSE <<>>)

C29_ClientReleased ==
    (call.op \in Operations /\ call.family = "postgresql") =>
        /\ call.released = call.clients
        /\ call.clients <= 1
        /\ call.sent # <<>> => call.clients = 1
        /\ (call.acquired /\ call.sent = <<>>) => (call.clients = 0 /\ call.released = 0)

\* C29, witness: a PostgreSQL operation whose query failed, with its client
\* released
C29_Witness ==
    /\ call.op \in Operations
    /\ call.family = "postgresql"
    /\ IsSome(call.failure)
    /\ call.sent # <<>>
    /\ call.clients = 1
    /\ call.released = 1

\* C30: listTables returns success when the server answered the enumeration
\* query without error, also with no rows.
C30_ListTablesSucceeds ==
    ( /\ Served
      /\ call.op = "listTables"
      /\ ~call.threw
      /\ call.sent # <<>>
      /\ call.failure = None ) => call.result.success

(***************************************************************************)
(* Operations of the MySQL adapter interleaved at their await points       *)
(***************************************************************************)

\* the profiles served by the MySQL adapter
MySQLProfiles == {p \in ProfileNames : getDatabaseType(config, p) = "mysql"}

\* a line handler inside an adapter method: the profile, where it waits
\* ("connecting": await mysql.createConnection, "querying": await
\* connection.query) and the connection it holds (0: none yet)
Handler(profile, pc, connection) ==
    [profile |-> profile, pc |-> pc, connection |-> connection]

Without(seq, i) == SubSeq(seq, 1, i - 1) \o SubSeq(seq, i + 1, Len(seq))

\* a 'line' event whose command reaches getConnection of the MySQL adapter:
\* with the profile in the map the cached connection is returned and the
\* query sent, otherwise createConnection is called and awaited
RaceEnter ==
    /\ runner.pc = "repl"
    /\ Len(inFlight) < MaxInFlight
    /\ \E profile \in MySQLProfiles :
          inFlight' = Append(inFlight,
              IF connectionPool.mysql[profile] # 0
              THEN Handler(profile, "querying", connectionPool.mysql[profile])
              ELSE Handler(profile, "connecting", 0))
    /\ dbFactory' = TRUE
    /\ utils' = getUtilForType(utils, "mysql").utils
    /\ UNCHANGED <<config, connectionPool, nextConn, ended, call, arg, ret, runner>>

\* mysql.createConnection resolves with a new physical connection:
\* connectionPool.set(profileName, connection), then the query is sent
RaceConnected ==
    /\ nextConn < MaxConns
    /\ \E i \in 1..Len(inFlight) :
          /\ inFlight[i].pc = "connecting"
          /\ connectionPool' =
                [connectionPool EXCEPT !.mysql[inFlight[i].profile] = nextConn + 1]
          /\ inFlight' = [inFlight EXCEPT ![i] =
                             Handler(inFlight[i].profile, "querying", nextConn + 1)]
    /\ nextConn' = nextConn + 1
    /\ UNCHANGED <<config, dbFactory, utils, ended, call, arg, ret, runner>>

\* mysql.createConnection rejects: the catch block returns the failure
RaceConnectFailed ==
    /\ \E i \in 1..Len(inFlight) :
          /\ inFlight[i].pc = "connecting"
          /\ inFlight' = Without(inFlight, i)
    /\ UNCHANGED <<adapterVars, arg, ret, runner>>

\* connection.query settles and the method returns its result
RaceReturn ==
    /\ \E i \in 1..Len(inFlight) :
          /\ inFlight[i].pc = "querying"
          /\ inFlight' = Without(inFlight, i)
    /\ UNCHANGED <<adapterVars, arg, ret, runner>>

\* closeAll of the MySQL adapter once every operation has returned
RaceCloseAll ==
    /\ inFlight = NoLines
    /\ utils.mysql # 0
    /\ \E done \in {MySQLUtil_closeAll(connectionPool.mysql)} :
          /\ ended' = ended \cup done.closed
          /\ connectionPool' = [connectionPool EXCEPT !.mysql = done.pool]
    /\ UNCHANGED <<config, dbFactory, utils, nextConn, call, arg, ret, runner,
                   inFlight>>

NextRace ==
    \/ RaceEnter
    \/ RaceConnected
    \/ RaceConnectFailed
    \/ RaceReturn
    \/ RaceCloseAll

SpecRace == InitRepl /\ [][NextRace]_vars

\* C27: when no operation is in progress, every connection the MySQL
\* adapter has opened is in its map or has been ended, so that closeAll
\* reaches every connection that is still open.
C27_NoLeak ==
    inFlight = NoLines =>
        \A id \in 1..nextConn :
            id \in ended \/ id \in Connections(connectionPool.mysql)


(***************************************************************************)
(* Closing when connection.end() / pool.end() may reject                   *)
(***************************************************************************)

\* closeAll of an adapter, the connections in `rejecting` being those whose
\* end() rejects: the map is walked in insertion order (the order of the
\* ids), each end() is awaited, and the first rejection leaves the loop, so
\* that the later entries are not ended and clear() is not reached
MySQLUtil_closeAll_end(pool, rejecting) ==
    LET held == Connections(pool)
        bad == held \cap rejecting
    IN  IF bad = {}
        THEN [pool |-> [p \in DOMAIN pool |-> 0], closed |-> held,
              threw |-> FALSE]
        ELSE LET first == CHOOSE b \in bad : \A c \in bad : b <= c
             IN  [pool |-> pool, closed |-> {c \in held : c < first},
                  threw |-> TRUE]

PostgreSQLUtil_closeAll_end(pool, rejecting) ==
    LET held == Connections(pool)
        bad == held \cap rejecting
    IN  IF bad = {}
        THEN [pool |-> [p \in DOMAIN pool |-> 0], closed |-> held,
              threw |-> FALSE]
        ELSE LET first == CHOOSE b \in bad : \A c \in bad : b <= c
             IN  [pool |-> pool, closed |-> {c \in held : c < first},
                  threw |-> TRUE]

\* DatabaseFactory.closeAll: the MySQL adapter first, then the PostgreSQL
\* adapter; a slot is set to null after its adapter's closeAll has returned,
\* and a closeAll that throws ends the method
DatabaseFactory_closeAll_end(utilsMap, pools, rejecting) ==
    LET my == MySQLUtil_closeAll_end(pools.mysql, rejecting)
        pg == PostgreSQLUtil_closeAll_end(pools.postgresql, rejecting)
        myHeld == utilsMap.mysql # 0
        pgHeld == utilsMap.postgresql # 0
    IN  IF myHeld /\ my.threw
        THEN [utils |-> utilsMap,
              pools |-> [pools EXCEPT !.mysql = my.pool],
              closed |-> my.closed, threw |-> TRUE]
        ELSE LET afterMy == [utilsMap EXCEPT !.mysql = 0]
                 poolsMy == IF myHeld THEN [pools EXCEPT !.mysql = my.pool]
                            ELSE pools
                 closedMy == IF myHeld THEN my.closed ELSE {}
             IN  IF pgHeld /\ pg.threw
                 THEN [utils |-> afterMy,
                       pools |-> [poolsMy EXCEPT !.postgresql = pg.pool],
                       closed |-> closedMy \cup pg.closed, threw |-> TRUE]
                 ELSE [utils |-> [afterMy EXCEPT !.postgresql = 0],
                       pools |-> IF pgHeld
                                 THEN [poolsMy EXCEPT !.postgresql = pg.pool]
                                 ELSE poolsMy,
                       closed |-> closedMy \cup (IF pgHeld THEN pg.closed ELSE {}),
                       threw |-> FALSE]

\* what a close reports: the connections it ended, whether it threw, and
\* the connections whose end() was set to reject
ClosedCall(op, family, done, rejecting) ==
    [CloseCall(op, family, done.closed)
        EXCEPT !.threw = done.threw, !.rejected = rejecting]

\* the connections that are in some adapter's map
Mapped == UNION {Connections(connectionPool[f]) : f \in Families}

\* closeConnections: dbFactory and cachedConfig are reset after
\* dbFactory.closeAll() has returned
CloseConnectionsEnd ==
    /\ \E rejecting \in SUBSET Mapped :
          IF dbFactory
          THEN \E done \in {DatabaseFactory_closeAll_end(utils, connectionPool,
                                                         rejecting)} :
                  /\ ended' = ended \cup done.closed
                  /\ connectionPool' = done.pools
                  /\ utils' = done.utils
                  /\ dbFactory' = done.threw
                  /\ call' = ClosedCall("closeConnections", "none", done,
                                        rejecting)
          ELSE /\ UNCHANGED <<ended, connectionPool, utils, dbFactory>>
               /\ call' = [CloseCall("closeConnections", "none", {})
                              EXCEPT !.rejected = rejecting]
    /\ UNCHANGED <<config, nextConn>>
    /\ UNCHANGED sessionVars

\* closeAll called on the factory
FactoryCloseAllEnd ==
    /\ dbFactory
    /\ \E rejecting \in SUBSET Mapped :
       \E done \in {DatabaseFactory_closeAll_end(utils, connectionPool,
                                                 rejecting)} :
          /\ ended' = ended \cup done.closed
          /\ connectionPool' = done.pools
          /\ utils' = done.utils
          /\ call' = ClosedCall("factory.closeAll", "none", done, rejecting)
    /\ UNCHANGED <<config, dbFactory, nextConn>>
    /\ UNCHANGED sessionVars

\* closeAll called on an adapter
AdapterCloseAllEnd ==
    /\ \E f \in Families, rejecting \in SUBSET Mapped :
          /\ utils[f] # 0
          /\ \E done \in {IF f = "mysql"
                          THEN MySQLUtil_closeAll_end(connectionPool[f], rejecting)
                          ELSE PostgreSQLUtil_closeAll_end(connectionPool[f],
                                                           rejecting)} :
                /\ ended' = ended \cup done.closed
                /\ connectionPool' = [connectionPool EXCEPT ![f] = done.pool]
                /\ call' = ClosedCall("util.closeAll", f, done, rejecting)
    /\ UNCHANGED <<config, dbFactory, utils, nextConn>>
    /\ UNCHANGED sessionVars

\* listDatabases is the operation that opens the connections
NextClose ==
    \/ ListDatabases
    \/ CloseConnectionsEnd
    \/ FactoryCloseAllEnd
    \/ AdapterCloseAllEnd

SpecClose == Init /\ [][NextClose]_vars

\* the adapters a close is called on
Covered(op, family) ==
    IF op = "util.closeAll" THEN {family}
    ELSE IF op = "factory.closeAll" \/ dbFactory
         THEN {f \in Families : utils[f] # 0}
         ELSE {}

\* C28: whichever end() rejects, a close leaves the map of every adapter it
\* was called on empty and every connection of those maps whose end() did
\* not reject ended, and a close of the factory or of the dispatcher also
\* leaves the adapter slots null and (the dispatcher's) the factory dropped.
C28_CloseAllCompletes ==
    [][ call'.op \in CloseOperations =>
            /\ \A f \in Covered(call'.op, call'.family) :
                  /\ connectionPool'[f] = EmptyPool
                  /\ Connections(connectionPool[f]) \ call'.rejected
                        \subseteq ended'
                  /\ call'.op # "util.closeAll" => utils'[f] = 0
            /\ call'.op = "closeConnections" => ~dbFactory' ]_vars

====
